---- MODULE Spec2Model ----
(***************************************************************************)
(* Request-dispatch core of the rust-api framework: route registration and *)
(* build_router (api.rs), nested routers (router.rs), per-route            *)
(* middleware (route.rs), the middleware chain and Next (api.rs,           *)
(* middleware.rs), the handler adapters (handler.rs), the extractors       *)
(* (extractors.rs), the request body cache (req.rs), the extension store   *)
(* (extensions.rs) and the response conversions (into_res.rs, res.rs).     *)
(*                                                                         *)
(* A path is the sequence of its segments: "/users/42" is <<"users","42">>.*)
(* A pattern segment is a literal or a capture ("{id}").                   *)
(***************************************************************************)
EXTENDS Integers, Sequences, FiniteSets, TLC

VARIABLES
    routes,       \* RustApi.routes: registrations not yet built
    middlewares,  \* RustApi.middlewares: global middleware, registration order
    body_limit,   \* application body-size limit (Option)
    error_handler, \* RustApi.error_handler (Option)
    state,        \* RustApi.state: Option of the shared application state
    router,       \* RustApi.router: Option of the built route table
    registered,   \* history: the registrations build_router drained
    pc,           \* "build" | "idle" (waiting for a request) | "run" | "done";
                  \* "ext" while an extension store is used on its own,
                  \* "serve" while several connections are served at once
    req,          \* the request being handled (Req)
    matched,      \* Option of the (handler, middlewares) entry router.at returned
    frames,       \* stack of entered middleware invocations, outermost first
    ctl,          \* where control is inside the chain
    exi,          \* number of extractors of the handler that have succeeded
    res,          \* the response travelling outwards
    trace,        \* history: what ran for this request, in order
    seen,         \* history: the result of every body() call on this request
    chain_built,  \* history: handling this request built a middleware chain
    returned,     \* history: Option of what the user function returned and
                  \* the response the handler adapter made of it
    ext_ret,      \* history: the last Extensions operation and its result
    conns         \* the requests in flight on connections served concurrently

vars == <<routes, middlewares, body_limit, error_handler, router, registered, pc,
          req, matched, frames, ctl, exi, res, trace, seen, chain_built, returned,
          ext_ret, state, conns>>

----------------------------------------------------------------------------
(* Bounds *)

MaxRoutes == 2      \* registrations per application
MaxGlobal == 2      \* layer() calls on the application
MaxRouteMw == 2     \* layer() calls on one Route
MaxBody == 2        \* bytes in a request body
MaxBodyCalls == 2   \* body() calls made by a handler that takes the raw Req
MaxLimit == 1       \* the largest body limit an application configures
MaxExtVal == 2      \* distinct values of one type put into an extension store
MaxConns == 2       \* connections served at the same time

----------------------------------------------------------------------------
(* Option, as in Rust *)

None == <<>>
Some(x) == <<x>>
IsSome(o) == Len(o) = 1
Unwrap(o) == o[1]

----------------------------------------------------------------------------
(* Domains the inputs are drawn from *)

Methods == {"GET", "POST"}

CaptureSegs == {"{id}"}
IsCapture(seg) == seg \in CaptureSegs
CapName(seg) == IF seg = "{id}" THEN "id" ELSE "name"

Patterns == { <<"items">>, <<"users", "active">>, <<"users", "{id}">> }
\* the patterns a Route with its own middleware is registered under
RoutePatterns == { <<"items">> }

ReqPaths == { <<"items">>, <<"users", "active">>, <<"users", "42">>, <<"users", "">>,
              <<"api", "items">>, <<"api", "v1", "ping">>, <<"nope">> }

GlobalNames == <<"g1", "g2", "g3">>
RouteMwNames == <<"r1", "r2", "r3">>
HandlerNames == <<"h1", "h2", "h3", "h4">>

\* what a user function returns (Fut::Output: IntoRes): a string, unit, a
\* Res, or a Result of one of these
Text(s) == [k |-> "str", s |-> s]
Unit == [k |-> "unit"]
ResValue(code) == [k |-> "Res", code |-> code]
ResBuilt(code) == [k |-> "ResBuilder", code |-> code]
OkOf(v) == [k |-> "Ok", v |-> v]
ErrOf(e) == [k |-> "Err", e |-> e]

\* FnHandler: a user function of the raw Req (handler.rs:22-35); rets is
\* the set of values the function may return
FnHandler(name) == [name |-> name, ex |-> <<>>, rets |-> {Text(name)}]

\* Router values that can be mounted with nest()
InnerRouter ==
    [routes |-> << [method |-> "GET", path |-> <<"ping">>, handler |-> FnHandler("n2")] >>,
     middlewares |-> <<"m2">>,
     nested |-> <<>>]

SoloRouter ==
    [routes |-> << [method |-> "POST", path |-> <<"items">>, handler |-> FnHandler("n3")] >>,
     middlewares |-> <<"m3">>,
     nested |-> <<>>]

OuterRouter ==
    [routes |-> << [method |-> "GET", path |-> <<"items">>, handler |-> FnHandler("n1")] >>,
     middlewares |-> <<"m1">>,
     nested |-> << [prefix |-> <<"v1">>, router |-> InnerRouter] >>]

RouterChoices == {SoloRouter, OuterRouter}
Prefixes == { <<"api">> }

----------------------------------------------------------------------------
(* Responses and errors *)

Res(status, by) == [status |-> status, by |-> by]
NoRes == [status |-> 0, by |-> "none"]

\* Error::not_found(..).into_res(): Status(404, Some(msg)) -> builder.status(404)
NotFoundStatus == 404
OkStatus == 200
ShortStatus == 401

----------------------------------------------------------------------------
(* Router::flatten (router.rs) *)

RECURSIVE flatten(_, _)
RECURSIVE FlattenNested(_, _, _)

\* the nested routers j..Len(nested), each flattened under prefix \o its own
\* prefix, with this router's middleware put in front of the nested ones
\* variant: the routes of a nested router keep their own middleware only
FlattenNestedNoParent(r, prefix, j) ==
    IF j > Len(r.nested) THEN <<>>
    ELSE flatten(r.nested[j].router, prefix \o r.nested[j].prefix)
         \o FlattenNested(r, prefix, j + 1)

\* variant: a nested router flattened under its own prefix only
FlattenNestedOwnPrefix(r, prefix, j) ==
    IF j > Len(r.nested) THEN <<>>
    ELSE LET sub == flatten(r.nested[j].router, r.nested[j].prefix)
             lifted == [i \in 1..Len(sub) |->
                          [sub[i] EXCEPT !.middlewares = r.middlewares \o @]]
         IN lifted \o FlattenNested(r, prefix, j + 1)

FlattenNested(r, prefix, j) ==
    IF j > Len(r.nested) THEN <<>>
    ELSE LET sub == flatten(r.nested[j].router, prefix \o r.nested[j].prefix)
             lifted == [i \in 1..Len(sub) |->
                          [sub[i] EXCEPT !.middlewares = r.middlewares \o @]]
         IN lifted \o FlattenNested(r, prefix, j + 1)

flatten(r, prefix) ==
    LET direct == [i \in 1..Len(r.routes) |->
                     [method |-> r.routes[i].method,
                      path |-> prefix \o r.routes[i].path,
                      handler |-> r.routes[i].handler,
                      middlewares |-> r.middlewares]]
    IN direct \o FlattenNested(r, prefix, 1)

----------------------------------------------------------------------------
(* matchit::Router as used by build_router and handle_request *)

SegMatch(pseg, seg) == IF IsCapture(pseg) THEN seg # "" ELSE pseg = seg

PatMatch(pat, path) ==
    /\ Len(pat) = Len(path)
    /\ \A i \in 1..Len(pat) : SegMatch(pat[i], path[i])

\* insert rejects a pattern with the shape of one already present
Conflict(p, q) ==
    /\ Len(p) = Len(q)
    /\ \A i \in 1..Len(p) : (IsCapture(p[i]) /\ IsCapture(q[i])) \/ p[i] = q[i]

\* variant: an insert that replaces the entry it conflicts with
insertReplacing(entries, e) ==
    IF \E i \in 1..Len(entries) : Conflict(entries[i].path, e.path)
    THEN [i \in 1..Len(entries) |->
             IF Conflict(entries[i].path, e.path) THEN e ELSE entries[i]]
    ELSE Append(entries, e)

\* router.insert(&path, (handler, middlewares)).ok(): an Err is dropped
insert(entries, e) ==
    IF \E i \in 1..Len(entries) : Conflict(entries[i].path, e.path)
    THEN entries
    ELSE Append(entries, e)

\* variant: the capture is tried before the literal
PrefersCapture(p, q) ==
    \E k \in 1..Len(p) :
        /\ IsCapture(p[k]) /\ ~IsCapture(q[k])
        /\ \A l \in 1..(k - 1) : IsCapture(p[l]) = IsCapture(q[l])

\* of two patterns matching one path, the one with a literal at the first
\* segment where their kinds differ
Prefers(p, q) ==
    \E k \in 1..Len(p) :
        /\ ~IsCapture(p[k]) /\ IsCapture(q[k])
        /\ \A l \in 1..(k - 1) : IsCapture(p[l]) = IsCapture(q[l])

\* variant: the captured segments are not reported
ParamsDropped(pat, path) == {}

Params(pat, path) ==
    { <<CapName(pat[i]), path[i]>> : i \in {k \in 1..Len(pat) : IsCapture(pat[k])} }

\* variant: a path that matches nothing falls to the first entry of the table
atFallback(entries, path) ==
    LET ms == {i \in 1..Len(entries) : PatMatch(entries[i].path, path)}
        b == IF ms = {} THEN 1
             ELSE CHOOSE i \in ms :
                     \A j \in ms \ {i} : Prefers(entries[i].path, entries[j].path)
    IN IF entries = <<>> THEN None
       ELSE Some([value |-> [handler |-> entries[b].handler,
                             middlewares |-> entries[b].middlewares],
                  params |-> IF ms = {} THEN {} ELSE Params(entries[b].path, path)])

\* router.at(&path): Option of [value, params]
at(entries, path) ==
    LET ms == {i \in 1..Len(entries) : PatMatch(entries[i].path, path)}
    IN IF ms = {} THEN None
       ELSE LET b == CHOOSE i \in ms :
                       \A j \in ms \ {i} : Prefers(entries[i].path, entries[j].path)
            IN Some([value |-> [handler |-> entries[b].handler,
                                middlewares |-> entries[b].middlewares],
                     params |-> Params(entries[b].path, path)])

----------------------------------------------------------------------------
(* RustApi::build_router *)

\* variant: the route's own middleware put before the global ones
CombinedMiddlewaresRouteFirst(global, route_middlewares) == route_middlewares \o global

\* combined_middlewares = self.middlewares.clone(); extend(route_middlewares)
\* variant: the chain of a route is the route's own middleware only
CombinedMiddlewaresRouteOnly(global, route_middlewares) == route_middlewares

CombinedMiddlewares(global, route_middlewares) == global \o route_middlewares

RoutesOf(rs, m) == SelectSeq(rs, LAMBDA r : r.method = m)

RECURSIVE Grouped(_, _)
\* the routes in the order the loop over method_routes visits them
Grouped(rs, order) ==
    IF order = <<>> THEN <<>>
    ELSE RoutesOf(rs, Head(order)) \o Grouped(rs, Tail(order))

RECURSIVE InsertAll(_, _, _)
InsertAll(entries, rs, global) ==
    IF rs = <<>> THEN entries
    ELSE InsertAll(insert(entries,
                          [path |-> Head(rs).path,
                           handler |-> Head(rs).handler,
                           middlewares |-> CombinedMiddlewares(global, Head(rs).middlewares)]),
                   Tail(rs), global)

\* iteration orders of the HashMap keyed by method
MethodOrders(rs) ==
    LET present == {rs[i].method : i \in 1..Len(rs)}
    IN {o \in UNION {[1..n -> present] : n \in 0..Cardinality(Methods)} :
           /\ Len(o) = Cardinality(present)
           /\ \A i, j \in 1..Len(o) : i # j => o[i] # o[j]}

build_router(rs, global, order) == InsertAll(<<>>, Grouped(rs, order), global)

----------------------------------------------------------------------------
(* Extensions (extensions.rs): a HashMap from TypeId to a boxed value.  The *)
(* map is the set of its entries; a boxed value remembers its own type.     *)

ExtTypes == {"u32", "String", "bool"}
ErrorHandlerType == "Arc<dyn ErrorHandler>"
ExtVals == 1..MaxExtVal

Boxed(t, v) == [type |-> t, val |-> v]

\* HashMap::get
HashMapGet(map, k) ==
    IF \E e \in map : e.key = k
    THEN Some((CHOOSE e \in map : e.key = k).boxed)
    ELSE None

\* variant: an insert that leaves the entries already under the key
HashMapInsertKeep(map, k, b) ==
    [map |-> map \cup {[key |-> k, boxed |-> b]}, old |-> HashMapGet(map, k)]

\* HashMap::insert: the entry under k is replaced, the old value returned
HashMapInsert(map, k, b) ==
    [map |-> {e \in map : e.key # k} \cup {[key |-> k, boxed |-> b]},
     old |-> HashMapGet(map, k)]

\* variant: a remove that empties the map
HashMapRemoveAll(map, k) ==
    [map |-> {}, old |-> HashMapGet(map, k)]

\* HashMap::remove
HashMapRemove(map, k) ==
    [map |-> {e \in map : e.key # k}, old |-> HashMapGet(map, k)]

\* Box<dyn Any>::downcast::<T>().ok() on an Option of a boxed value
downcast(o, t) ==
    IF IsSome(o) /\ Unwrap(o).type = t THEN Some(Unwrap(o).val) ELSE None

\* Extensions::new
ext_new == {}

\* Extensions::insert::<T>(value)
ext_insert(map, t, v) ==
    LET r == HashMapInsert(map, t, Boxed(t, v))
    IN [map |-> r.map, ret |-> downcast(r.old, t)]

\* Extensions::get::<T>()
ext_get(map, t) == downcast(HashMapGet(map, t), t)

\* Extensions::get_mut::<T>(): a reference to the value stored under T; the
\* caller may assign through it (w is the value assigned, 0 for none)
ext_get_mut(map, t, w) ==
    LET ret == downcast(HashMapGet(map, t), t)
    IN [map |-> IF IsSome(ret) /\ w # 0
                THEN {IF e.key = t THEN [e EXCEPT !.boxed.val = w] ELSE e : e \in map}
                ELSE map,
        ret |-> ret]

\* variant: remove that hands the value out and leaves it in the map
ext_remove_kept(map, t) ==
    [map |-> map, ret |-> downcast(HashMapGet(map, t), t)]

\* Extensions::remove::<T>()
ext_remove(map, t) ==
    LET r == HashMapRemove(map, t)
    IN [map |-> r.map, ret |-> downcast(r.old, t)]

\* Extensions::contains::<T>()
ext_contains(map, t) == \E e \in map : e.key = t

\* Extensions::clear
ext_clear(map) == {}

\* Extensions::len
ext_len(map) == Cardinality(map)

\* the record of one operation: what was held before it and what it returned
Op(op, t, arg, before, ret) ==
    [op |-> op, type |-> t, arg |-> arg, before |-> before, ret |-> ret]
NoOp == Op("none", "", 0, {}, None)

----------------------------------------------------------------------------
(* Requests *)

\* Content-Length header: absent, present but not a number, or a number
ClAbsent == 0 - 2
ClBad == 0 - 1

\* Req::from_hyper: the cache is empty, the transport handle is present, no
\* limit is set.  wire remembers what the transport carries and reads counts
\* the collect() calls made on it (both history only).
from_hyper(method, path, query, ct, cl, bytes, fails) ==
    [method |-> method, path |-> path, query |-> query,
     content_type |-> ct, content_length |-> cl,
     path_params |-> {},
     extensions |-> ext_new,
     body_cell |-> None,
     incoming |-> Some([bytes |-> bytes, fails |-> fails]),
     body_limit |-> None,
     wire |-> [bytes |-> bytes, fails |-> fails],
     reads |-> 0]

\* a request without query, headers or body
BareReq(method, path) == from_hyper(method, path, "missing", <<>>, ClAbsent, <<>>, FALSE)

NoReq == BareReq("GET", <<>>)

\* Req::set_body_limit
set_body_limit(r, limit) == [r EXCEPT !.body_limit = limit]


----------------------------------------------------------------------------
(* Errors (error.rs) and their responses (into_res.rs) *)

\* Error::Status(code, Some(msg)); msg records that a message is carried
Status(code) == [kind |-> "Status", code |-> code, msg |-> TRUE]
\* Error::status(code): Status(code, None)
StatusNone(code) == [kind |-> "Status", code |-> code, msg |-> FALSE]
Custom == [kind |-> "Custom", code |-> 0, msg |-> TRUE]
Json == [kind |-> "Json", code |-> 0, msg |-> TRUE]
Hyper == [kind |-> "Hyper", code |-> 0, msg |-> TRUE]
Io == [kind |-> "Io", code |-> 0, msg |-> TRUE]
NoErr == [kind |-> "none", code |-> 0, msg |-> FALSE]

bad_request == Status(400)
payload_too_large == Status(413)
unprocessable == Status(422)
internal == Status(500)

\* variant: only the codes of the registered classes 1xx..5xx are kept
StatusCodeOfBelow600(code) == IF code \in 100..599 THEN code ELSE 500

\* StatusCode::from_u16(code).unwrap_or(INTERNAL_SERVER_ERROR)
StatusCodeOf(code) == IF code \in 100..999 THEN code ELSE 500

\* variant: only a Status error becomes a response; any other error is
\* handed to the transport as an Err, which has no status
into_res_propagated(e) ==
    IF e.kind = "Status" THEN StatusCodeOf(e.code) ELSE 0

\* variant: a Json error answered like the other non-Status errors
into_res_json_internal(e) ==
    IF e.kind = "Status" THEN StatusCodeOf(e.code) ELSE StatusCodeOf(500)

\* impl IntoRes for Error: the status of the response
into_res(e) ==
    CASE e.kind = "Status" -> StatusCodeOf(e.code)
      [] e.kind = "Json" -> StatusCodeOf(400)
      [] OTHER -> StatusCodeOf(500)

\* Res::text: 200 with the text as body; Res::status(code): empty body
ResOut(code, text) == [status |-> StatusCodeOf(code), text |-> text]

\* impl IntoRes for Error: the whole response; the text is the message when
\* the error carries one
ErrorIntoRes(e) == [status |-> into_res(e), text |-> IF e.msg THEN "message" ELSE ""]

RECURSIVE IntoRes(_)
\* IntoRes for String / &str, (), Res (from Res::status or from
\* Res::builder().status(code).text(..)), Result<T, Error>
IntoRes(v) ==
    CASE v.k = "str" -> ResOut(OkStatus, v.s)
      [] v.k = "unit" -> ResOut(204, "")
      [] v.k = "Res" -> ResOut(v.code, "")
      [] v.k = "ResBuilder" -> ResOut(v.code, "built")
      [] v.k = "Ok" -> IntoRes(v.v)
      [] v.k = "Err" -> ErrorIntoRes(v.e)

----------------------------------------------------------------------------
(* Req::body (req.rs) *)

BodyOk(r, bytes) == [req |-> r, ok |-> TRUE, bytes |-> bytes, e |-> NoErr]
BodyErr(r, e) == [req |-> r, ok |-> FALSE, bytes |-> <<>>, e |-> e]

\* variant: the Content-Length header is not looked at
DeclaredTooLargeIgnored(cl, limit) == FALSE

\* the Content-Length header parses as a number above the limit
DeclaredTooLarge(cl, limit) == IsSome(limit) /\ cl >= 0 /\ cl > Unwrap(limit)

\* variant: only the header is compared with the limit
ActualTooLargeUnchecked(len, limit) == FALSE

\* body_bytes.len() > limit
ActualTooLarge(len, limit) == IsSome(limit) /\ len > Unwrap(limit)

\* variant: no cache; every call collects what is left on the transport
body_uncached(r) ==
    IF r.incoming = None THEN BodyErr(r, internal)
    ELSE LET inc == Unwrap(r.incoming)
             r1 == [r EXCEPT !.reads = @ + 1,
                             !.incoming = Some([inc EXCEPT !.bytes = <<>>])]
         IN IF inc.fails THEN BodyErr(r1, Custom) ELSE BodyOk(r1, inc.bytes)

\* variant: a failed call leaves the transport handle in the request
body_handle_kept(r) ==
    IF IsSome(r.body_cell) THEN BodyOk(r, Unwrap(r.body_cell))
    ELSE IF r.incoming = None THEN BodyErr(r, internal)
    ELSE LET inc == Unwrap(r.incoming)
             read == [r EXCEPT !.reads = @ + 1]
         IN IF DeclaredTooLarge(r.content_length, r.body_limit)
            THEN BodyErr(r, payload_too_large)
            ELSE IF inc.fails THEN BodyErr(read, Custom)
            ELSE IF ActualTooLarge(Len(inc.bytes), r.body_limit)
                 THEN BodyErr(read, payload_too_large)
                 ELSE BodyOk([read EXCEPT !.body_cell = Some(inc.bytes),
                                          !.incoming = None], inc.bytes)

\* body_cell.get_or_try_init(closure): the closure runs only on an empty cell
body(r) ==
    IF IsSome(r.body_cell) THEN BodyOk(r, Unwrap(r.body_cell))
    ELSE IF r.incoming = None THEN BodyErr(r, internal)
    ELSE LET inc == Unwrap(r.incoming)
             taken == [r EXCEPT !.incoming = None]
             read == [taken EXCEPT !.reads = @ + 1]
         IN IF DeclaredTooLarge(r.content_length, r.body_limit)
            THEN BodyErr(taken, payload_too_large)
            ELSE IF inc.fails THEN BodyErr(read, Custom)
            ELSE IF ActualTooLarge(Len(inc.bytes), r.body_limit)
                 THEN BodyErr(read, payload_too_large)
                 ELSE BodyOk([read EXCEPT !.body_cell = Some(inc.bytes)], inc.bytes)

----------------------------------------------------------------------------
(* Extractors (extractors.rs) *)

\* a header value is the sequence of its pieces: the media type, then what
\* follows it; <<>> is a missing (or non-text) header, read as ""
JsonType == <<"application/json">>
FormType == <<"application/x-www-form-urlencoded">>
ParamPieces == {"; charset=utf-8"}

ContentTypes ==
    { <<>>, JsonType, JsonType \o <<"; charset=utf-8">>, JsonType \o <<"5">>,
      FormType, <<"text/plain">> }

\* str::starts_with
starts_with(s, prefix) ==
    Len(s) >= Len(prefix) /\ SubSeq(s, 1, Len(prefix)) = prefix

\* request bodies: a "j" byte is JSON text, an "f" byte is form text
ByteAlphabet == {"j", "f"}
Bodies == UNION {[1..n -> ByteAlphabet] : n \in 0..MaxBody}

\* serde_json::from_slice(body) succeeds
JsonOk(bytes) == bytes # <<>> /\ \A i \in 1..Len(bytes) : bytes[i] = "j"
\* serde_urlencoded::from_bytes(body) succeeds
FormOk(bytes) == bytes # <<>> /\ \A i \in 1..Len(bytes) : bytes[i] = "f"

Queries == {"missing", "bad", "ok"}

ExOk(r, calls) == [req |-> r, ok |-> TRUE, e |-> NoErr, calls |-> calls]
ExErr(r, e, calls) == [req |-> r, ok |-> FALSE, e |-> e, calls |-> calls]
CallRec(b) == [ok |-> b.ok, bytes |-> b.bytes, e |-> b.e]

\* the target types T of the Path<T> arguments tried: the fields of T, each
\* with its name and its type
PathTargets ==
    [Path |-> { <<"id", "String">> },
     PathU32 |-> { <<"id", "u32">> },
     PathPair |-> { <<"id", "String">>, <<"name", "String">> }]

PathKinds == DOMAIN PathTargets

\* variant: a field whose name was not captured is left empty
deserialize_path_params_defaulted(params, T) ==
    IF \A f \in T : f[2] = "String"
    THEN Some({pr \in params : \E f \in T : f[1] = pr[1]}
              \cup {<<f[1], "">> : f \in {g \in T : \A pr \in params : pr[1] # g[1]}})
    ELSE None

\* deserialize_path_params: T::deserialize over the map's (&str, &str) pairs.
\* Every value is offered as a string, which only a String field accepts, and
\* every field of T has to be among the keys.  Option of the value built.
deserialize_path_params(params, T) ==
    IF \A f \in T : f[2] = "String" /\ \E pr \in params : pr[1] = f[1]
    THEN Some({pr \in params : \E f \in T : f[1] = pr[1]})
    ELSE None

\* variant: a form body that does not parse is a bad request
FormParseError400 == bad_request

\* Error::unprocessable(format!("Invalid form data: {}", e))
FormParseError == unprocessable

\* Form::from_request: the Content-Type check, the body, the parse
FormFromRequest(r) ==
    IF ~starts_with(r.content_type, FormType)
    THEN ExErr(r, bad_request, <<>>)
    ELSE LET b == body(r)
         IN IF ~b.ok THEN ExErr(b.req, b.e, <<CallRec(b)>>)
            ELSE IF ~FormOk(b.bytes) THEN ExErr(b.req, FormParseError, <<CallRec(b)>>)
            ELSE ExOk(b.req, <<CallRec(b)>>)

\* variant: the body is read before the Content-Type header is checked
JsonFromRequestBodyFirst(r) ==
    LET b == body(r)
    IN IF ~starts_with(r.content_type, JsonType)
       THEN ExErr(b.req, bad_request, <<CallRec(b)>>)
       ELSE IF ~b.ok THEN ExErr(b.req, b.e, <<CallRec(b)>>)
       ELSE IF ~JsonOk(b.bytes) THEN ExErr(b.req, bad_request, <<CallRec(b)>>)
       ELSE ExOk(b.req, <<CallRec(b)>>)

\* Json::from_request: the Content-Type check, the body, the parse
JsonFromRequest(r) ==
    IF ~starts_with(r.content_type, JsonType)
    THEN ExErr(r, bad_request, <<>>)
    ELSE LET b == body(r)
         IN IF ~b.ok THEN ExErr(b.req, b.e, <<CallRec(b)>>)
            ELSE IF ~JsonOk(b.bytes) THEN ExErr(b.req, bad_request, <<CallRec(b)>>)
            ELSE ExOk(b.req, <<CallRec(b)>>)

\* FromRequest::from_request for each extractor; calls lists the body() calls
from_request(kind, r) ==
    CASE kind = "State" -> ExOk(r, <<>>)
      [] kind = "Headers" -> ExOk(r, <<>>)
      [] kind = "Query" ->
            IF r.query = "ok" THEN ExOk(r, <<>>) ELSE ExErr(r, bad_request, <<>>)
      [] kind \in PathKinds ->
            IF IsSome(deserialize_path_params(r.path_params, PathTargets[kind]))
            THEN ExOk(r, <<>>) ELSE ExErr(r, bad_request, <<>>)
      [] kind = "Form" -> FormFromRequest(r)
      [] kind = "Json" -> JsonFromRequest(r)
      [] kind = "BodyBytes" ->
            LET b == body(r)
            IN IF b.ok THEN ExOk(b.req, <<CallRec(b)>>)
               ELSE ExErr(b.req, b.e, <<CallRec(b)>>)

BodyExtractors == {"Form", "Json", "BodyBytes"}

\* the extractor arguments of the handlers tried, FnHandler1..FnHandler3, and
\* <<>> for the plain FnHandler
HandlerSigs ==
    { <<>>,
      <<"Json">>,
      <<"BodyBytes", "BodyBytes">>, <<"Json", "BodyBytes">>,
      <<"State", "Query", "Json">>, <<"Headers", "Form", "BodyBytes">>,
      <<"Path", "BodyBytes", "Query">>,
      <<"PathU32", "Json">>, <<"PathPair", "BodyBytes">> }

\* variant: call() goes on to the next extractor after a failure
AbortOnErrNever(ok) == FALSE

\* Err(e) => return e.into_res()
AbortOnErr(ok) == ~ok

----------------------------------------------------------------------------
(* Middleware chain *)

\* variant: run(&self, req) leaves the handle usable
NextAfterRunKept(held) == held

\* Next::run(self, req) consumes the handle
NextAfterRun(held) == FALSE

\* variant: a returning element answers the transport directly
ReturnToTransport(fs) == [k |-> "out", i |-> 0]

\* where a returning chain element hands its response: the closure that
\* awaited it, or handle_request when there is none
ReturnTo(fs) == IF fs = <<>> THEN [k |-> "out", i |-> 0]
                ELSE [k |-> "in", i |-> Len(fs)]

ChainLen == IF IsSome(matched) THEN Len(Unwrap(matched).middlewares) ELSE 0
\* variant: every element of the chain is handed a state made for it
HandedStateFresh == "fresh"

\* Some(s) => Arc::clone(s): the state the closures of the chain capture and
\* hand to the middleware, to Next and to the handler
HandedState == Unwrap(state)

\* variant: the next closure gets a request whose store is a new one
PassOnNewStore(r) == [r EXCEPT !.extensions = ext_new]

\* next.run(req): the request moves, as the middleware left it, into the next
\* closure of the chain
PassOn(r) == r

Ev(ev, who, pos, st) ==
    [ev |-> ev, who |-> who, pos |-> pos, st |-> st, state |-> HandedState]

----------------------------------------------------------------------------
Init ==
    /\ routes = <<>>
    /\ middlewares = <<>>
    /\ body_limit = None
    /\ error_handler = None
    /\ router = None
    /\ registered = <<>>
    /\ pc = "build"
    /\ req = NoReq
    /\ matched = None
    /\ frames = <<>>
    /\ ctl = [k |-> "out", i |-> 0]
    /\ exi = 0
    /\ res = NoRes
    /\ trace = <<>>
    /\ seen = <<>>
    /\ chain_built = FALSE
    /\ returned = None
    /\ ext_ret = NoOp
    /\ state = Some("unit")
    /\ conns = <<>>

reqVars == <<req, matched, frames, ctl, exi, res, trace, seen, chain_built,
             returned, ext_ret>>
appVars == <<routes, middlewares, body_limit, error_handler, router, registered,
             state, conns>>

\* RustApi::layer
layer ==
    /\ pc = "build"
    /\ Len(middlewares) < MaxGlobal
    /\ middlewares' = Append(middlewares, GlobalNames[Len(middlewares) + 1])
    /\ UNCHANGED <<routes, body_limit, error_handler, router, registered, pc,
                 state, conns>>
    /\ UNCHANGED reqVars

\* RustApi::get / post (put, delete, patch are the same code)
register ==
    /\ pc = "build"
    /\ Len(routes) < MaxRoutes
    /\ \E m \in Methods, p \in Patterns :
         routes' = Append(routes, [method |-> m, path |-> p,
                                   handler |-> FnHandler(HandlerNames[Len(routes) + 1]),
                                   middlewares |-> <<>>])
    /\ UNCHANGED <<middlewares, body_limit, error_handler, router, registered, pc,
                 state, conns>>
    /\ UNCHANGED reqVars

\* RustApi::route with Route::get/post(..).layer(..)...
route ==
    /\ pc = "build"
    /\ Len(routes) < MaxRoutes
    /\ \E m \in Methods, p \in RoutePatterns, n \in 1..MaxRouteMw :
         routes' = Append(routes, [method |-> m, path |-> p,
                                   handler |-> FnHandler(HandlerNames[Len(routes) + 1]),
                                   middlewares |-> SubSeq(RouteMwNames, 1, n)])
    /\ UNCHANGED <<middlewares, body_limit, error_handler, router, registered, pc,
                 state, conns>>
    /\ UNCHANGED reqVars

\* RustApi::nest
nest ==
    /\ pc = "build"
    /\ \E prefix \in Prefixes, r \in RouterChoices :
         LET flattened == flatten(r, prefix)
         IN /\ Len(routes) + Len(flattened) <= MaxRoutes
            \* nest takes the Router by value: one Router is mounted once
            /\ \A i \in 1..Len(routes), j \in 1..Len(flattened) :
                    routes[i].handler.name # flattened[j].handler.name
            /\ routes' = routes \o flattened
    /\ UNCHANGED <<middlewares, body_limit, error_handler, router, registered, pc,
                 state, conns>>
    /\ UNCHANGED reqVars

\* RustApi::listen: build_router, then serve
listen ==
    /\ pc = "build"
    /\ \E order \in MethodOrders(routes) :
         router' = Some(build_router(routes, middlewares, order))
    /\ registered' = routes
    /\ routes' = <<>>
    /\ pc' = "idle"
    /\ UNCHANGED <<middlewares, body_limit, error_handler, state, conns>>
    /\ UNCHANGED reqVars

\* variant: the configured error handler is not put into the request
InsertErrorHandlerSkipped(map) == map

\* if let Some(ref error_handler) = self.error_handler:
\* rust_req.extensions_mut().insert(Arc::clone(error_handler))
InsertErrorHandler(map) ==
    IF IsSome(error_handler)
    THEN ext_insert(map, ErrorHandlerType, Unwrap(error_handler)).map
    ELSE map

\* if middlewares.is_empty() the handler is called directly; otherwise the
\* closures of the chain are built, innermost first, for this request
BuildsChain(mws) == mws # <<>>

\* the application's limit is put on every request before dispatch
ApplyBodyLimit(r) == set_body_limit(r, body_limit)

\* variant: the no-match arm answers like the router-missing arm below it
NotFoundResInternal == Res(500, "dispatcher")

\* Err(_) => Error::not_found("Route not found").into_res()
NotFoundRes == Res(NotFoundStatus, "dispatcher")

\* variant: the unset state is answered like an unknown path
StateMissingResNotFound == NotFoundRes

\* None => return Ok(Error::internal("State not initialized").into_res()...)
StateMissingRes == Res(into_res(internal), "dispatcher")

\* None => Error::internal("Router not initialized").into_res()
RouterMissingRes == Res(into_res(internal), "dispatcher")

\* variant: the lookup takes the table out of the application
AfterLookupTaken(table) == None

\* match &self.router { Some(router) => router.at(&path): the table is only
\* borrowed, the application holds the same table after the lookup
AfterLookup(table) == table

\* RustApi::handle_request for the hyper request r0, up to the first call into
\* the chain (or to the response when there is nothing to call)
Dispatch(r0) ==
    /\ pc = "idle"
    /\ LET r1 == ApplyBodyLimit(r0)
           hit == IF IsSome(router) THEN at(Unwrap(router), r0.path) ELSE None
           r2 == [r1 EXCEPT !.path_params = Unwrap(hit).params,
                            !.extensions = InsertErrorHandler(@)]
       IN IF ~IsSome(router)
          THEN /\ req' = r1
               /\ matched' = None
               /\ chain_built' = FALSE
               /\ pc' = "done"
               /\ ctl' = [k |-> "out", i |-> 0]
               /\ res' = RouterMissingRes
          ELSE IF ~IsSome(hit)
          THEN /\ req' = r1
               /\ matched' = None
               /\ chain_built' = FALSE
               /\ pc' = "done"
               /\ ctl' = [k |-> "out", i |-> 0]
               /\ res' = NotFoundRes
          ELSE IF ~IsSome(state)
          THEN /\ req' = r2
               /\ matched' = Some(Unwrap(hit).value)
               /\ chain_built' = FALSE
               /\ pc' = "done"
               /\ ctl' = [k |-> "out", i |-> 0]
               /\ res' = StateMissingRes
          ELSE /\ req' = r2
               /\ matched' = Some(Unwrap(hit).value)
               /\ chain_built' = BuildsChain(Unwrap(hit).value.middlewares)
               /\ pc' = "run"
               /\ ctl' = [k |-> "enter", i |-> 1]
               /\ res' = NoRes
    /\ frames' = <<>>
    /\ exi' = 0
    /\ trace' = <<>>
    /\ seen' = <<>>
    /\ returned' = None
    /\ ext_ret' = NoOp
    /\ router' = AfterLookup(router)
    /\ UNCHANGED <<routes, middlewares, body_limit, error_handler, registered, state,
                   conns>>

\* a request without body arrives
handle_request ==
    /\ pc = "idle"
    /\ \E m \in Methods, p \in ReqPaths : Dispatch(BareReq(m, p))

\* the closure built for middleware i: Next::new, then mw.handle starts
MwEnter ==
    /\ pc = "run"
    /\ ctl.k = "enter"
    /\ ctl.i <= ChainLen
    /\ frames' = Append(frames, [idx |-> ctl.i, next |-> TRUE, runs |-> 0])
    /\ trace' = Append(trace, Ev("before", Unwrap(matched).middlewares[ctl.i], ctl.i, 0))
    /\ ctl' = [k |-> "in", i |-> Len(frames) + 1]
    /\ UNCHANGED <<req, matched, exi, res, pc, seen, chain_built, returned, ext_ret>>
    /\ UNCHANGED appVars

\* the middleware calls next.run(req)
MwRunNext ==
    /\ pc = "run"
    /\ ctl.k = "in"
    /\ frames[Len(frames)].next
    /\ LET f == frames[Len(frames)]
       IN /\ frames' = [frames EXCEPT ![Len(frames)] =
                           [f EXCEPT !.next = NextAfterRun(f.next), !.runs = f.runs + 1]]
          /\ trace' = Append(trace, Ev("run", Unwrap(matched).middlewares[f.idx], f.idx, 0))
          /\ ctl' = [k |-> "enter", i |-> f.idx + 1]
    /\ req' = PassOn(req)
    /\ UNCHANGED <<matched, exi, res, pc, seen, chain_built, returned, ext_ret>>
    /\ UNCHANGED appVars

\* the middleware returns: the inner response if it delegated, its own if not
MwReturn ==
    /\ pc = "run"
    /\ ctl.k = "in"
    /\ LET f == frames[Len(frames)]
           who == Unwrap(matched).middlewares[f.idx]
           rest == SubSeq(frames, 1, Len(frames) - 1)
       IN /\ IF f.runs = 0
             THEN /\ res' = Res(ShortStatus, who)
                  /\ trace' = Append(trace, Ev("short", who, f.idx, ShortStatus))
             ELSE /\ res' = res
                  /\ trace' = Append(trace, Ev("after", who, f.idx, res.status))
          /\ frames' = rest
          /\ ctl' = ReturnTo(rest)
          /\ pc' = IF ReturnTo(rest).k = "out" THEN "done" ELSE "run"
    /\ UNCHANGED <<req, matched, exi, seen, chain_built, returned, ext_ret>>
    /\ UNCHANGED appVars

\* FnHandler::call: the user function gets the request
HandlerCall ==
    /\ pc = "run"
    /\ ctl.k = "enter"
    /\ ctl.i = ChainLen + 1
    /\ Unwrap(matched).handler.ex = <<>>
    /\ \E v \in Unwrap(matched).handler.rets :
          /\ returned' = Some([value |-> v, out |-> IntoRes(v)])
          /\ res' = Res(IntoRes(v).status, Unwrap(matched).handler.name)
          /\ trace' = Append(trace, Ev("handler", Unwrap(matched).handler.name, ctl.i,
                                       IntoRes(v).status))
    /\ ctl' = ReturnTo(frames)
    /\ pc' = IF ReturnTo(frames).k = "out" THEN "done" ELSE "run"
    /\ UNCHANGED <<req, matched, frames, exi, seen, chain_built, ext_ret>>
    /\ UNCHANGED appVars

\* Ok(response.into_hyper()): the response goes to the transport, the
\* request is dropped and the connection waits for the next request
Respond ==
    /\ pc = "done"
    /\ pc' = "idle"
    /\ req' = NoReq
    /\ matched' = None
    /\ frames' = <<>>
    /\ ctl' = [k |-> "out", i |-> 0]
    /\ exi' = 0
    /\ res' = NoRes
    /\ trace' = <<>>
    /\ seen' = <<>>
    /\ chain_built' = FALSE
    /\ returned' = None
    /\ ext_ret' = NoOp
    /\ UNCHANGED appVars

Next ==
    \/ layer
    \/ register
    \/ route
    \/ nest
    \/ listen
    \/ handle_request
    \/ MwEnter
    \/ MwRunNext
    \/ MwReturn
    \/ HandlerCall
    \/ Respond

Spec == Init /\ [][Next]_vars

\* FnHandler1/2/3::call: the next extractor runs
Extract ==
    /\ pc = "run"
    /\ ctl.k = "enter"
    /\ ctl.i = ChainLen + 1
    /\ exi < Len(Unwrap(matched).handler.ex)
    /\ LET kind == Unwrap(matched).handler.ex[exi + 1]
           x == from_request(kind, req)
       IN /\ req' = x.req
          /\ seen' = seen \o x.calls
          /\ trace' = Append(trace, Ev(IF x.ok THEN "extract_ok" ELSE "extract_err",
                                       kind, exi + 1, IF x.ok THEN 0 ELSE into_res(x.e)))
          /\ IF AbortOnErr(x.ok)
             THEN /\ res' = Res(into_res(x.e), "extractor")
                  /\ ctl' = ReturnTo(frames)
                  /\ pc' = IF ReturnTo(frames).k = "out" THEN "done" ELSE "run"
                  /\ exi' = exi
             ELSE /\ exi' = exi + 1
                  /\ UNCHANGED <<res, ctl, pc>>
    /\ UNCHANGED <<matched, frames, chain_built, returned, ext_ret>>
    /\ UNCHANGED appVars

\* FnHandler1/2/3::call: every extraction succeeded, the user function runs
HandlerInvoke ==
    /\ pc = "run"
    /\ ctl.k = "enter"
    /\ ctl.i = ChainLen + 1
    /\ Unwrap(matched).handler.ex # <<>>
    /\ exi = Len(Unwrap(matched).handler.ex)
    /\ \E v \in Unwrap(matched).handler.rets :
          /\ returned' = Some([value |-> v, out |-> IntoRes(v)])
          /\ res' = Res(IntoRes(v).status, Unwrap(matched).handler.name)
          /\ trace' = Append(trace, Ev("handler", Unwrap(matched).handler.name, ctl.i,
                                       IntoRes(v).status))
    /\ ctl' = ReturnTo(frames)
    /\ pc' = IF ReturnTo(frames).k = "out" THEN "done" ELSE "run"
    /\ UNCHANGED <<req, matched, frames, exi, seen, chain_built, ext_ret>>
    /\ UNCHANGED appVars

\* a user function holding the raw Req calls req.body()
UserBody ==
    /\ pc = "run"
    /\ ctl.k = "enter"
    /\ ctl.i = ChainLen + 1
    /\ Unwrap(matched).handler.ex = <<>>
    /\ Len(seen) < MaxBodyCalls
    /\ LET b == body(req)
       IN /\ req' = b.req
          /\ seen' = Append(seen, CallRec(b))
    /\ UNCHANGED <<matched, frames, ctl, exi, res, trace, pc, chain_built, returned, ext_ret>>
    /\ UNCHANGED appVars

\* a request with query, headers and body arrives for the one route
handle_request_body ==
    /\ pc = "idle"
    /\ \E q \in Queries, ct \in ContentTypes, cl \in ClAbsent..(MaxBody + 1),
          bytes \in Bodies, fails \in BOOLEAN :
           Dispatch(from_hyper("POST", <<"users", "42">>, q, ct, cl, bytes, fails))

\* an application with one route whose handler takes the extractors of one
\* of HandlerSigs, and with or without a body limit, after build_router
InitEx ==
    /\ \E sig \in HandlerSigs :
         LET rt == [method |-> "POST", path |-> <<"users", "{id}">>,
                    handler |-> [name |-> "hx", ex |-> sig, rets |-> {Text("hx")}],
                    middlewares |-> <<>>]
         IN /\ registered = <<rt>>
            /\ router = Some(build_router(<<rt>>, <<>>, <<"POST">>))
    /\ body_limit \in {None} \cup {Some(n) : n \in 0..MaxLimit}
    /\ routes = <<>>
    /\ middlewares = <<>>
    /\ error_handler = None
    /\ pc = "idle"
    /\ req = NoReq
    /\ matched = None
    /\ frames = <<>>
    /\ ctl = [k |-> "out", i |-> 0]
    /\ exi = 0
    /\ res = NoRes
    /\ trace = <<>>
    /\ seen = <<>>
    /\ chain_built = FALSE
    /\ returned = None
    /\ ext_ret = NoOp
    /\ state = Some("unit")
    /\ conns = <<>>

NextEx ==
    \/ handle_request_body
    \/ Extract
    \/ HandlerInvoke
    \/ UserBody
    \/ HandlerCall
    \/ Respond

SpecEx == InitEx /\ [][NextEx]_vars

----------------------------------------------------------------------------
(* Serving one endpoint whose user function may return any response-       *)
(* convertible value, behind zero or one middleware, with or without an    *)
(* error handler configured.                                               *)

\* the codes a user function puts into Error::Status
ErrorCodes == {99, 100, 404, 999, 1000}

\* the values the user function may return
ReturnValues ==
    {Text("pong"), Text(""), Unit, ResValue(201)}
    \cup {OkOf(v) : v \in {Text("pong"), Unit, ResValue(201)}}
    \cup {ErrOf(Status(c)) : c \in ErrorCodes}
    \cup {ErrOf(e) : e \in {StatusNone(404), Custom, Json, Hyper, Io}}
    \cup {ErrOf(StatusNone(c)) : c \in ErrorCodes}
    \cup {ResValue(c) : c \in ErrorCodes}
    \cup {ResBuilt(c) : c \in ErrorCodes}

ServeSigs == { <<>>, <<"Json">>, <<"Query", "BodyBytes">> }
ServePaths == { <<"users", "42">>, <<"nope">> }
ServeQueries == {"ok", "bad"}
ServeContentTypes == {JsonType, <<"text/plain">>}
ServeBodies == { <<>>, <<"j">> }

\* service_fn(move |req| app.handle_request(req)): the next request of the
\* connection is handed to the dispatcher
serve_connection ==
    /\ pc = "idle"
    /\ \E p \in ServePaths, q \in ServeQueries, ct \in ServeContentTypes,
          bytes \in ServeBodies, fails \in BOOLEAN :
           Dispatch(from_hyper("POST", p, q, ct, ClAbsent, bytes, fails))

\* RustApi::new().error_handler(..)?.layer(..)?.post("/users/{id}", f) after
\* build_router
InitServe ==
    /\ \E sig \in ServeSigs, n \in 0..1 :
         LET rt == [method |-> "POST", path |-> <<"users", "{id}">>,
                    handler |-> [name |-> "hs", ex |-> sig, rets |-> ReturnValues],
                    middlewares |-> <<>>]
         IN /\ middlewares = SubSeq(GlobalNames, 1, n)
            /\ registered = <<rt>>
            /\ router = Some(build_router(<<rt>>, middlewares, <<"POST">>))
    /\ error_handler \in {None, Some(1)}
    /\ body_limit = None
    /\ routes = <<>>
    /\ pc = "idle"
    /\ req = NoReq
    /\ matched = None
    /\ frames = <<>>
    /\ ctl = [k |-> "out", i |-> 0]
    /\ exi = 0
    /\ res = NoRes
    /\ trace = <<>>
    /\ seen = <<>>
    /\ chain_built = FALSE
    /\ returned = None
    /\ ext_ret = NoOp
    /\ state = Some("unit")
    /\ conns = <<>>

NextServe ==
    \/ serve_connection
    \/ MwEnter
    \/ MwRunNext
    \/ MwReturn
    \/ Extract
    \/ HandlerInvoke
    \/ UserBody
    \/ HandlerCall
    \/ Respond

\* every middleware and user function that was entered runs to its end, and
\* the dispatcher's own steps are taken
ServeFairness ==
    /\ WF_vars(MwEnter)
    /\ WF_vars(MwReturn)
    /\ WF_vars(Extract)
    /\ WF_vars(HandlerInvoke)
    /\ WF_vars(HandlerCall)
    /\ WF_vars(Respond)

SpecServe == InitServe /\ [][NextServe]_vars /\ ServeFairness

----------------------------------------------------------------------------
(* The extension store of a request, used the way the tests of             *)
(* extensions.rs and user code holding a Req use it.                       *)

\* ext.insert(value)
StoreInsert ==
    /\ pc = "ext"
    /\ \E t \in ExtTypes, v \in ExtVals :
          LET r == ext_insert(req.extensions, t, v)
          IN /\ req' = [req EXCEPT !.extensions = r.map]
             /\ ext_ret' = Op("insert", t, v, req.extensions, r.ret)
    /\ UNCHANGED <<matched, frames, ctl, exi, res, trace, seen, chain_built, returned, pc>>
    /\ UNCHANGED appVars

\* ext.get::<T>()
StoreGet ==
    /\ pc = "ext"
    /\ \E t \in ExtTypes :
          ext_ret' = Op("get", t, 0, req.extensions, ext_get(req.extensions, t))
    /\ UNCHANGED <<req, matched, frames, ctl, exi, res, trace, seen, chain_built, returned, pc>>
    /\ UNCHANGED appVars

\* ext.remove::<T>()
StoreRemove ==
    /\ pc = "ext"
    /\ \E t \in ExtTypes :
          LET r == ext_remove(req.extensions, t)
          IN /\ req' = [req EXCEPT !.extensions = r.map]
             /\ ext_ret' = Op("remove", t, 0, req.extensions, r.ret)
    /\ UNCHANGED <<matched, frames, ctl, exi, res, trace, seen, chain_built, returned, pc>>
    /\ UNCHANGED appVars

\* if let Some(v) = ext.get_mut::<T>() { *v = w }
StoreGetMut ==
    /\ pc = "ext"
    /\ \E t \in ExtTypes, w \in {0} \cup ExtVals :
          LET r == ext_get_mut(req.extensions, t, w)
          IN /\ req' = [req EXCEPT !.extensions = r.map]
             /\ ext_ret' = Op("get_mut", t, w, req.extensions, r.ret)
    /\ UNCHANGED <<matched, frames, ctl, exi, res, trace, seen, chain_built, returned, pc>>
    /\ UNCHANGED appVars

\* ext.clear()
StoreClear ==
    /\ pc = "ext"
    /\ req' = [req EXCEPT !.extensions = ext_clear(@)]
    /\ ext_ret' = Op("clear", "", 0, req.extensions, None)
    /\ UNCHANGED <<matched, frames, ctl, exi, res, trace, seen, chain_built, returned, pc>>
    /\ UNCHANGED appVars

\* a request fresh from Req::from_hyper: its store is Extensions::new()
InitExt ==
    /\ pc = "ext"
    /\ req = NoReq
    /\ routes = <<>>
    /\ middlewares = <<>>
    /\ body_limit = None
    /\ error_handler = None
    /\ router = None
    /\ registered = <<>>
    /\ matched = None
    /\ frames = <<>>
    /\ ctl = [k |-> "out", i |-> 0]
    /\ exi = 0
    /\ res = NoRes
    /\ trace = <<>>
    /\ seen = <<>>
    /\ chain_built = FALSE
    /\ returned = None
    /\ ext_ret = NoOp
    /\ state = Some("unit")
    /\ conns = <<>>

NextExt ==
    \/ StoreInsert
    \/ StoreGet
    \/ StoreRemove
    \/ StoreGetMut
    \/ StoreClear

SpecExt == InitExt /\ [][NextExt]_vars

----------------------------------------------------------------------------
(* An application with one top-level route and one router mounted with     *)
(* nest(): the router has a route of its own and two nested routers, one   *)
(* of which nests a third.                                                 *)

LeafRouter(h, mw) ==
    [routes |-> << [method |-> "GET", path |-> <<h>>, handler |-> FnHandler(h)] >>,
     middlewares |-> <<mw>>,
     nested |-> <<>>]

TreeRouter ==
    [routes |-> << [method |-> "GET", path |-> <<"t0">>, handler |-> FnHandler("t0")] >>,
     middlewares |-> <<"mt">>,
     nested |-> << [prefix |-> <<"a">>, router |-> LeafRouter("ta", "ma")],
                   [prefix |-> <<"b">>,
                    router |-> [LeafRouter("tb", "mb") EXCEPT
                                  !.nested = << [prefix |-> <<"c">>,
                                                 router |-> LeafRouter("tc", "mc")] >>]] >>]

NestPaths ==
    { <<"top">>, <<"api", "t0">>, <<"api", "a", "ta">>, <<"api", "b", "tb">>,
      <<"api", "b", "c", "tc">>, <<"api", "c", "tc">> }

\* RustApi::nest("/api", TreeRouter)
nest_tree ==
    /\ pc = "build"
    /\ Len(routes) = 1
    /\ routes' = routes \o flatten(TreeRouter, <<"api">>)
    /\ UNCHANGED <<middlewares, body_limit, error_handler, router, registered, pc,
                   state, conns>>
    /\ UNCHANGED reqVars

\* a request without body for one of the mounted paths
nest_request ==
    /\ pc = "idle"
    /\ Len(registered) > 1
    /\ \E m \in Methods, p \in NestPaths : Dispatch(BareReq(m, p))

\* RustApi::new().get("/top", f)
InitNest ==
    /\ routes = << [method |-> "GET", path |-> <<"top">>, handler |-> FnHandler("top"),
                    middlewares |-> <<>>] >>
    /\ middlewares = <<>>
    /\ body_limit = None
    /\ error_handler = None
    /\ router = None
    /\ registered = <<>>
    /\ state = Some("unit")
    /\ conns = <<>>
    /\ pc = "build"
    /\ req = NoReq
    /\ matched = None
    /\ frames = <<>>
    /\ ctl = [k |-> "out", i |-> 0]
    /\ exi = 0
    /\ res = NoRes
    /\ trace = <<>>
    /\ seen = <<>>
    /\ chain_built = FALSE
    /\ returned = None
    /\ ext_ret = NoOp

NextNest ==
    \/ nest_tree
    \/ layer
    \/ listen
    \/ nest_request
    \/ MwEnter
    \/ MwRunNext
    \/ MwReturn
    \/ HandlerCall
    \/ Respond

SpecNest == InitNest /\ [][NextNest]_vars

----------------------------------------------------------------------------
(* Middleware that works on the request before it delegates and on the     *)
(* response after, in front of handlers with and without extractors, on an *)
(* application made by with_state or by Default.                           *)

\* the type of the value middleware i puts into the store (RequestId, User)
MwExtType(i) == <<"u32", "String", "bool">>[i]

\* the status of the response a middleware puts in place of the inner one
ReplacedStatus == 503

PipeSigs == { <<>>, <<"State", "Json">> }
PipePaths == { <<"users", "42">>, <<"nope">> }
PipeContentTypes == {JsonType, <<"text/plain">>}

\* the top frame has not done this kind of work yet
NotYet(kinds) ==
    \A k \in 1..Len(trace) :
        ~(trace[k].pos = frames[Len(frames)].idx /\ trace[k].ev \in kinds)

\* before-phase of a middleware: req.extensions_mut().insert(v), or
\* req.headers_mut().insert(CONTENT_TYPE, "application/json")
MwBefore ==
    /\ pc = "run"
    /\ ctl.k = "in"
    /\ frames[Len(frames)].runs = 0
    /\ NotYet({"insert", "header"})
    /\ LET f == frames[Len(frames)]
           who == Unwrap(matched).middlewares[f.idx]
       IN \/ \E v \in ExtVals :
               /\ req' = [req EXCEPT !.extensions = ext_insert(@, MwExtType(f.idx), v).map]
               /\ trace' = Append(trace, Ev("insert", who, f.idx, v))
          \/ /\ req' = [req EXCEPT !.content_type = JsonType]
             /\ trace' = Append(trace, Ev("header", who, f.idx,
                                          IF req.content_type = JsonType THEN 0 ELSE 1))
    /\ UNCHANGED <<matched, frames, ctl, exi, res, pc, seen, chain_built, returned, ext_ret>>
    /\ UNCHANGED appVars

\* after-phase of a middleware that delegated: it puts its own response in
\* place of the one next.run(req).await gave it
MwReplace ==
    /\ pc = "run"
    /\ ctl.k = "in"
    /\ frames[Len(frames)].runs > 0
    /\ NotYet({"replace"})
    /\ LET f == frames[Len(frames)]
           who == Unwrap(matched).middlewares[f.idx]
       IN /\ res' = Res(ReplacedStatus, who)
          /\ trace' = Append(trace, Ev("replace", who, f.idx, res.status))
    /\ UNCHANGED <<req, matched, frames, ctl, exi, pc, seen, chain_built, returned, ext_ret>>
    /\ UNCHANGED appVars

\* the next request of the connection
pipe_request ==
    /\ pc = "idle"
    /\ \E p \in PipePaths, ct \in PipeContentTypes :
           Dispatch(from_hyper("POST", p, "ok", ct, ClAbsent, <<"j">>, FALSE))

\* RustApi::with_state(s) or RustApi::default(), then error_handler(..)?,
\* layer(..)*, post("/users/{id}", f), after build_router
InitPipe ==
    /\ \E sig \in PipeSigs, n \in 0..MaxGlobal :
         LET rt == [method |-> "POST", path |-> <<"users", "{id}">>,
                    handler |-> [name |-> "hp", ex |-> sig, rets |-> {Text("hp")}],
                    middlewares |-> <<>>]
         IN /\ middlewares = SubSeq(GlobalNames, 1, n)
            /\ registered = <<rt>>
            /\ router = Some(build_router(<<rt>>, middlewares, <<"POST">>))
    /\ state \in {None, Some("s1")}
    /\ error_handler \in {None, Some(1)}
    /\ body_limit = None
    /\ routes = <<>>
    /\ conns = <<>>
    /\ pc = "idle"
    /\ req = NoReq
    /\ matched = None
    /\ frames = <<>>
    /\ ctl = [k |-> "out", i |-> 0]
    /\ exi = 0
    /\ res = NoRes
    /\ trace = <<>>
    /\ seen = <<>>
    /\ chain_built = FALSE
    /\ returned = None
    /\ ext_ret = NoOp

NextPipe ==
    \/ pipe_request
    \/ MwEnter
    \/ MwBefore
    \/ MwRunNext
    \/ MwReplace
    \/ MwReturn
    \/ Extract
    \/ HandlerInvoke
    \/ HandlerCall
    \/ Respond

SpecPipe == InitPipe /\ [][NextPipe]_vars

----------------------------------------------------------------------------
(* Several connections served at once: listen spawns one task for each     *)
(* accepted connection, every task calls handle_request on the shared      *)
(* application, and the tasks are interleaved at their await points.       *)

ConnPaths == { <<"users", "42">>, <<"users", "7">>, <<"nope">> }
ConnBodies == { <<>>, <<"j">> }

\* a connection between two requests
IdleConn == [at |-> "idle", req |-> NoReq, put |-> <<>>, got |-> <<>>, res |-> NoRes]

\* variant: the extension store is one store behind every request in flight
OwnReqShared(cs, t, c) ==
    [u \in DOMAIN cs |->
        IF u = t THEN c
        ELSE IF cs[u].at = "run"
             THEN [cs[u] EXCEPT !.req.extensions = c.req.extensions]
             ELSE cs[u]]

\* rust_req is a local of the handle_request call of task t, moved into the
\* chain of that call: what the call does to it concerns that request only
OwnReq(cs, t, c) == [cs EXCEPT ![t] = c]

\* handle_request on connection t: Req::from_hyper, router.at, set_path_params
ConnAccept ==
    /\ pc = "serve"
    /\ \E t \in DOMAIN conns, p \in ConnPaths, bytes \in ConnBodies :
          /\ conns[t].at = "idle"
          /\ LET r0 == from_hyper("POST", p, "ok", JsonType, ClAbsent, bytes, FALSE)
                 hit == IF IsSome(router) THEN at(Unwrap(router), p) ELSE None
             IN conns' = OwnReq(conns, t,
                    IF ~IsSome(router)
                    THEN [IdleConn EXCEPT !.at = "done", !.res = RouterMissingRes]
                    ELSE IF ~IsSome(hit)
                    THEN [IdleConn EXCEPT !.at = "done", !.res = NotFoundRes]
                    ELSE [IdleConn EXCEPT
                            !.at = "run",
                            !.req = [r0 EXCEPT !.path_params = Unwrap(hit).params,
                                               !.extensions = InsertErrorHandler(@)]])
    /\ router' = AfterLookup(router)
    /\ UNCHANGED <<routes, middlewares, body_limit, error_handler, registered, state, pc>>
    /\ UNCHANGED reqVars

\* a middleware or the user function of request t: req.extensions_mut().insert(v)
ConnInsert ==
    /\ pc = "serve"
    /\ \E t \in DOMAIN conns, v \in ExtVals :
          /\ conns[t].at = "run"
          /\ conns[t].put = <<>>
          /\ conns' = OwnReq(conns, t,
                 [conns[t] EXCEPT !.req.extensions = ext_insert(@, "u32", v).map,
                                  !.put = Append(@, v)])
    /\ UNCHANGED <<routes, middlewares, body_limit, error_handler, router, registered,
                   state, pc>>
    /\ UNCHANGED reqVars

\* the user function of request t: req.body().await
ConnBody ==
    /\ pc = "serve"
    /\ \E t \in DOMAIN conns :
          /\ conns[t].at = "run"
          /\ Len(conns[t].got) < MaxBodyCalls
          /\ LET b == body(conns[t].req)
             IN conns' = OwnReq(conns, t,
                    [conns[t] EXCEPT !.req = b.req, !.got = Append(@, CallRec(b))])
    /\ UNCHANGED <<routes, middlewares, body_limit, error_handler, router, registered,
                   state, pc>>
    /\ UNCHANGED reqVars

\* the user function of request t returns: the request is dropped
ConnHandler ==
    /\ pc = "serve"
    /\ \E t \in DOMAIN conns :
          /\ conns[t].at = "run"
          /\ conns' = OwnReq(conns, t,
                 [IdleConn EXCEPT !.at = "done", !.res = Res(OkStatus, "hc")])
    /\ UNCHANGED <<routes, middlewares, body_limit, error_handler, router, registered,
                   state, pc>>
    /\ UNCHANGED reqVars

\* Ok(response.into_hyper()) on connection t, which waits for its next request
ConnRespond ==
    /\ pc = "serve"
    /\ \E t \in DOMAIN conns :
          /\ conns[t].at = "done"
          /\ conns' = OwnReq(conns, t, IdleConn)
    /\ UNCHANGED <<routes, middlewares, body_limit, error_handler, router, registered,
                   state, pc>>
    /\ UNCHANGED reqVars

\* RustApi::new().post("/users/{id}", f) after build_router, MaxConns
\* connections accepted
InitConc ==
    /\ LET rt == [method |-> "POST", path |-> <<"users", "{id}">>,
                  handler |-> FnHandler("hc"), middlewares |-> <<>>]
       IN /\ registered = <<rt>>
          /\ router = Some(build_router(<<rt>>, <<>>, <<"POST">>))
    /\ conns = [t \in 1..MaxConns |-> IdleConn]
    /\ pc = "serve"
    /\ routes = <<>>
    /\ middlewares = <<>>
    /\ body_limit = None
    /\ error_handler = None
    /\ state = Some("unit")
    /\ req = NoReq
    /\ matched = None
    /\ frames = <<>>
    /\ ctl = [k |-> "out", i |-> 0]
    /\ exi = 0
    /\ res = NoRes
    /\ trace = <<>>
    /\ seen = <<>>
    /\ chain_built = FALSE
    /\ returned = None
    /\ ext_ret = NoOp

NextConc ==
    \/ ConnAccept
    \/ ConnInsert
    \/ ConnBody
    \/ ConnHandler
    \/ ConnRespond

SpecConc == InitConc /\ [][NextConc]_vars

----------------------------------------------------------------------------
(* Helpers for the properties *)

Serving == pc \in {"run", "done"}
IsLiteral(pat) == \A i \in 1..Len(pat) : ~IsCapture(pat[i])
Steps == SelectSeq(trace, LAMBDA e : e.ev # "run")
HasEv(kind) == \E k \in 1..Len(trace) : trace[k].ev = kind
CountEv(kind, pos) == Cardinality({k \in 1..Len(trace) : trace[k].ev = kind /\ trace[k].pos = pos})
Reg(k) == registered[k]
RegIdx == 1..Len(registered)

RECURSIVE Contains(_, _)
Contains(r, h) ==
    \/ \E i \in 1..Len(r.routes) : r.routes[i].handler.name = h
    \/ \E j \in 1..Len(r.nested) : Contains(r.nested[j].router, h)

RECURSIVE ScopeChain(_, _)
\* the middleware of the routers enclosing handler h, outermost first
ScopeChain(r, h) ==
    IF \E i \in 1..Len(r.routes) : r.routes[i].handler.name = h
    THEN r.middlewares
    ELSE LET j == CHOOSE j \in 1..Len(r.nested) : Contains(r.nested[j].router, h)
         IN r.middlewares \o ScopeChain(r.nested[j].router, h)

\* the scope (M) or per-route (R) middleware registered with handler h
OwnMiddlewares(h) ==
    IF \E r \in RouterChoices : Contains(r, h)
    THEN ScopeChain(CHOOSE r \in RouterChoices : Contains(r, h), h)
    ELSE LET k == CHOOSE k \in RegIdx : Reg(k).handler.name = h
         IN Reg(k).middlewares

----------------------------------------------------------------------------
(* C1: a request with exactly the method and path of a registered (method,   *)
(* literal pattern) pair is dispatched to a handler registered for that     *)
(* pair and to no other handler, also when the path is registered under     *)
(* several methods.                                                         *)
C1_ExactDispatch ==
    Serving =>
        \A k \in RegIdx :
            (IsLiteral(Reg(k).path) /\ Reg(k).method = req.method /\ Reg(k).path = req.path)
            => /\ IsSome(matched)
               /\ Unwrap(matched).handler.name \in
                      {Reg(j).handler.name : j \in {i \in RegIdx :
                           Reg(i).method = req.method /\ Reg(i).path = req.path}}

(* C2: a request whose path matches a registered pattern but whose method   *)
(* has no registration for that pattern gets the not-found outcome; no      *)
(* handler or middleware runs for it.                                       *)
C2_MethodKeyed ==
    (/\ Serving
     /\ \E k \in RegIdx : PatMatch(Reg(k).path, req.path)
     /\ ~\E k \in RegIdx : Reg(k).method = req.method /\ PatMatch(Reg(k).path, req.path))
    => /\ matched = None
       /\ pc = "done"
       /\ res.status = NotFoundStatus
       /\ trace = <<>>

(* C3: when every middleware delegates, the before-phases run in the order  *)
(* global, scope (outer to inner), per-route, each tier in registration     *)
(* order; the handler runs after all of them; the after-phases run in the   *)
(* reverse order.                                                           *)
C3_MiddlewareOrder ==
    (pc = "done" /\ IsSome(matched) /\ ~HasEv("short"))
    => LET h == Unwrap(matched).handler.name
           expected == middlewares \o OwnMiddlewares(h)
           n == Len(expected)
       IN /\ Len(Steps) = 2 * n + 1
          /\ \A i \in 1..n :
                /\ Steps[i].ev = "before" /\ Steps[i].who = expected[i]
                /\ Steps[2 * n + 2 - i].ev = "after" /\ Steps[2 * n + 2 - i].who = expected[i]
          /\ Steps[n + 1].ev = "handler" /\ Steps[n + 1].who = h

C3_Witness ==
    /\ pc = "done" /\ IsSome(matched) /\ ~HasEv("short")
    /\ Unwrap(matched).handler.name = "n2"
    /\ Len(middlewares) = 2
    /\ Len(Steps) = 9

(* C4: when the middleware at position i returns without calling next.run,  *)
(* nothing at a position greater than i runs, the handler does not run, and *)
(* the after-phases of positions i-1 .. 1 run in that order on its response.*)
C4_ShortCircuit ==
    \A k \in 1..Len(trace) :
        trace[k].ev = "short" =>
            LET i == trace[k].pos
            IN /\ ~HasEv("handler")
               /\ \A l \in 1..Len(trace) : trace[l].pos <= i
               /\ \A l \in (k + 1)..Len(trace) :
                     /\ trace[l].ev = "after"
                     /\ trace[l].pos = i - (l - k)
                     /\ trace[l].st = trace[k].st
               /\ pc = "done" => (Len(trace) = k + i - 1 /\ res = Res(trace[k].st, trace[k].who))

C4_Witness ==
    /\ pc = "done"
    /\ \E k \in 1..Len(trace) : trace[k].ev = "short" /\ trace[k].pos = 3
    /\ trace[Len(trace)].ev = "after" /\ trace[Len(trace)].pos = 1

(* C5: a middleware invocation runs the rest of the chain zero times or     *)
(* once, never twice, and every entered middleware completes exactly once.  *)
C5_NextOnce ==
    /\ \A j \in 1..Len(frames) : frames[j].runs <= 1
    /\ \A i \in 1..ChainLen :
          /\ CountEv("run", i) <= 1
          /\ CountEv("before", i) <= 1
          /\ CountEv("after", i) + CountEv("short", i) <= CountEv("before", i)
          /\ pc = "done" => CountEv("after", i) + CountEv("short", i) = CountEv("before", i)
    /\ pc = "done" => frames = <<>>

C5_Witness ==
    /\ pc = "done"
    /\ CountEv("run", 1) = 1 /\ CountEv("after", 1) = 1
    /\ CountEv("before", 2) = 1 /\ CountEv("run", 2) = 0 /\ CountEv("short", 2) = 1

(* C10: a request whose path matches no registered route gets the 404       *)
(* response at once, nothing runs for it, the response is returned and the  *)
(* dispatcher then accepts the next request.                                *)
C10_NotFound ==
    /\ (Serving /\ ~\E k \in RegIdx : PatMatch(Reg(k).path, req.path))
       => /\ pc = "done"
          /\ matched = None
          /\ res.status = 404
          /\ trace = <<>>
          /\ ENABLED Respond
    /\ pc = "idle" => ENABLED handle_request

C10_Witness ==
    /\ pc = "done"
    /\ registered # <<>>
    /\ req.path = <<"users", "">>
    /\ res.status = 404

----------------------------------------------------------------------------
(* Helpers for the extraction properties *)

HandlerEx == IF IsSome(matched) THEN Unwrap(matched).handler.ex ELSE <<>>
Extractions == SelectSeq(trace, LAMBDA e : e.ev \in {"extract_ok", "extract_err"})
HasBodyExtractor == \E k \in 1..Len(HandlerEx) : HandlerEx[k] \in BodyExtractors
DeclaredOver == IsSome(body_limit) /\ req.content_length > Unwrap(body_limit)
ActualOver == IsSome(body_limit) /\ Len(req.wire.bytes) > Unwrap(body_limit)

\* the header names media type type: the type alone or followed by parameters
NamesMediaType(ct, type) ==
    \/ ct = type
    \/ \E p \in ParamPieces : ct = type \o <<p>>

(* C6: over any sequence of body() calls on one request the transport is    *)
(* read at most once and every successful call returns the bytes of the     *)
(* first successful call.                                                   *)
C6_BodyOnce ==
    /\ req.reads <= 1
    /\ \A i, j \in 1..Len(seen) :
          (seen[i].ok /\ seen[j].ok) => seen[i].bytes = seen[j].bytes
    /\ \A i \in 1..Len(seen) : seen[i].ok => seen[i].bytes = req.wire.bytes

C6_Witness ==
    /\ HandlerEx = <<"Json", "BodyBytes">>
    /\ exi = 2
    /\ Len(seen) = 2 /\ seen[1].ok /\ seen[2].ok
    /\ Len(seen[2].bytes) = 2
    /\ req.reads = 1

C8_ExtractionOrder ==
    LET X == Extractions
    IN /\ \A k \in 1..Len(X) :
             /\ X[k].pos = k
             /\ X[k].who = HandlerEx[k]
             /\ X[k].ev = "extract_err"
                => /\ k = Len(X)
                   /\ ~HasEv("handler")
                   /\ pc = "done"
                   /\ res = Res(X[k].st, "extractor")
       /\ (HasEv("handler") /\ HandlerEx # <<>>)
          => /\ Len(X) = Len(HandlerEx)
             /\ \A k \in 1..Len(X) : X[k].ev = "extract_ok"
             /\ trace[Len(trace)].ev = "handler"

C8_Witness ==
    /\ pc = "done"
    /\ Len(HandlerEx) = 3
    /\ Len(Extractions) = 2
    /\ Extractions[1].ev = "extract_ok"
    /\ Extractions[2].ev = "extract_err"
    /\ res.status = 400

(* C9: the Form and Json extractors answer 400, whatever the body, when the *)
(* Content-Type header is missing or does not name their media type, and    *)
(* the user function is not invoked.                                        *)
C9_ContentTypeChecked ==
    \A k \in 1..Len(Extractions) :
        LET e == Extractions[k]
            type == IF e.who = "Json" THEN JsonType ELSE FormType
        IN (e.who \in {"Json", "Form"} /\ ~NamesMediaType(req.content_type, type))
           => /\ e.ev = "extract_err"
              /\ e.st = 400
              /\ ~HasEv("handler")

----------------------------------------------------------------------------
(* Helpers for the routing properties *)

LitPat == <<"users", "active">>
CapPat == <<"users", "{id}">>
HandlersAt(pat) == {Reg(k).handler.name : k \in {i \in RegIdx : Reg(i).path = pat}}
MatchedName == Unwrap(matched).handler.name
Captures(pat) == {i \in 1..Len(pat) : IsCapture(pat[i])}

\* the registrations made so far: routes while building, registered after
Mounted == IF pc = "build" THEN routes ELSE registered

RECURSIVE RouterHandlers(_)
RouterHandlers(r) ==
    {r.routes[i].handler.name : i \in 1..Len(r.routes)}
    \cup UNION {RouterHandlers(r.nested[j].router) : j \in 1..Len(r.nested)}

RECURSIVE RouteOf(_, _)
\* the route of handler h as written in the router that declares it
RouteOf(r, h) ==
    IF \E i \in 1..Len(r.routes) : r.routes[i].handler.name = h
    THEN r.routes[CHOOSE i \in 1..Len(r.routes) : r.routes[i].handler.name = h]
    ELSE RouteOf(r.nested[CHOOSE j \in 1..Len(r.nested) :
                              Contains(r.nested[j].router, h)].router, h)

RECURSIVE ScopePrefix(_, _)
\* the prefixes of the routers enclosing handler h below r, outermost first
ScopePrefix(r, h) ==
    IF \E i \in 1..Len(r.routes) : r.routes[i].handler.name = h
    THEN <<>>
    ELSE LET j == CHOOSE j \in 1..Len(r.nested) : Contains(r.nested[j].router, h)
         IN r.nested[j].prefix \o ScopePrefix(r.nested[j].router, h)

(* C12: with /users/active and /users/{id} both registered, in either       *)
(* order, a request for /users/active goes to an endpoint of the literal    *)
(* pattern with an empty parameter map, and a request with any other        *)
(* non-empty segment after /users/ goes to an endpoint of the capture.      *)
C12_StaticPrecedence ==
    (/\ Serving
     /\ HandlersAt(LitPat) # {} /\ HandlersAt(CapPat) # {}
     /\ Len(req.path) = 2 /\ req.path[1] = "users" /\ req.path[2] # "")
    => /\ IsSome(matched)
       /\ req.path = LitPat => (MatchedName \in HandlersAt(LitPat) /\ req.path_params = {})
       /\ req.path # LitPat => MatchedName \in HandlersAt(CapPat)

C12_Witness ==
    /\ pc = "done"
    /\ Len(registered) = 2
    /\ Reg(1).path = CapPat /\ Reg(2).path = LitPat
    /\ req.path = LitPat
    /\ IsSome(matched) /\ MatchedName = Reg(2).handler.name
    /\ req.path_params = {}
    /\ res.status = 200

(* C13 as stated: for every registered pattern with one capture, a request  *)
(* with any non-empty value in the capture's segment is matched to that     *)
(* pattern and the parameter map holds exactly that value under the         *)
(* capture's name.                                                          *)
C13_Original ==
    Serving =>
        \A k \in RegIdx :
            (Cardinality(Captures(Reg(k).path)) = 1 /\ PatMatch(Reg(k).path, req.path))
            => /\ IsSome(matched)
               /\ MatchedName \in HandlersAt(Reg(k).path)
               /\ \A c \in Captures(Reg(k).path) :
                      req.path_params = {<<CapName(Reg(k).path[c]), req.path[c]>>}

(* C13 amended: the same, for every request path that is not itself a       *)
(* registered literal pattern (a literal pattern takes the request, with an *)
(* empty parameter map); the map is what middleware and handler see for the *)
(* whole request; a path with an empty segment at the capture is not        *)
(* matched to the capture's pattern.                                        *)
C13_CaptureParam ==
    Serving =>
        \A k \in RegIdx :
            Cardinality(Captures(Reg(k).path)) = 1
            => /\ (PatMatch(Reg(k).path, req.path) /\ HandlersAt(req.path) = {})
                  => /\ IsSome(matched)
                     /\ MatchedName \in HandlersAt(Reg(k).path)
                     /\ \A c \in Captures(Reg(k).path) :
                            req.path_params = {<<CapName(Reg(k).path[c]), req.path[c]>>}
               /\ (/\ Len(req.path) = Len(Reg(k).path)
                   /\ \E c \in Captures(Reg(k).path) : req.path[c] = "")
                  => (IsSome(matched) => MatchedName \notin HandlersAt(Reg(k).path))

C13_Witness ==
    /\ pc = "run" /\ ctl.k = "in"
    /\ req.path = <<"users", "42">>
    /\ IsSome(matched) /\ MatchedName \in HandlersAt(CapPat)
    /\ req.path_params = {<<"id", "42">>}

(* C14: every route of a mounted router, at any depth, is registered once,  *)
(* under the mount prefix followed by the prefixes of its enclosing routers *)
(* (outermost first) and its own pattern, with the middleware of its        *)
(* enclosing routers from outermost to innermost; a request for that path   *)
(* reaches the route's handler behind the global and then those middleware, *)
(* when no other registration has the same path.                            *)
C14_Flatten ==
    \A r \in RouterChoices :
        (\E k \in 1..Len(Mounted) : Mounted[k].handler.name \in RouterHandlers(r))
        => \A h \in RouterHandlers(r) :
              LET ks == {k \in 1..Len(Mounted) : Mounted[k].handler.name = h}
                  k == CHOOSE k \in ks : TRUE
              IN /\ Cardinality(ks) = 1
                 /\ \E prefix \in Prefixes :
                        Mounted[k].path = prefix \o ScopePrefix(r, h) \o RouteOf(r, h).path
                 /\ Mounted[k].method = RouteOf(r, h).method
                 /\ Mounted[k].middlewares = ScopeChain(r, h)
                 /\ (/\ Serving
                     /\ req.path = Mounted[k].path
                     /\ \A j \in 1..Len(Mounted) : j # k => Mounted[j].path # Mounted[k].path)
                    => /\ IsSome(matched)
                       /\ MatchedName = h
                       /\ Unwrap(matched).middlewares = middlewares \o ScopeChain(r, h)

C14_Witness ==
    /\ pc = "done"
    /\ req.path = <<"api", "v1", "ping">>
    /\ IsSome(matched) /\ MatchedName = "n2"
    /\ Unwrap(matched).middlewares = <<"g1", "m1", "m2">>
    /\ res = Res(200, "n2")

(* C15: handling a request never builds a middleware chain for the matched  *)
(* endpoint: the chain built with the application is reused.                *)
C15_ChainReused ==
    Serving => ~chain_built

(* C18: the route table holds at most one endpoint per pattern (so at most  *)
(* one per method and pattern), and of two registrations of one pattern for *)
(* one method the later one never serves a request: a request that only     *)
(* registrations of that method and pattern match is served by the earliest *)
(* of them.                                                                 *)
C18_DuplicatePolicy ==
    /\ IsSome(router) =>
          \A a, b \in 1..Len(Unwrap(router)) :
              a # b => Unwrap(router)[a].path # Unwrap(router)[b].path
    /\ \A i, j \in RegIdx :
          (i < j /\ Reg(i).method = Reg(j).method /\ Reg(i).path = Reg(j).path)
          => /\ (Serving /\ IsSome(matched)) => MatchedName # Reg(j).handler.name
             /\ (/\ Serving
                 /\ PatMatch(Reg(i).path, req.path)
                 /\ \A k \in RegIdx :
                       PatMatch(Reg(k).path, req.path)
                       => (k >= i /\ Reg(k).method = Reg(i).method /\ Reg(k).path = Reg(i).path))
                => (IsSome(matched) /\ MatchedName = Reg(i).handler.name)

C18_Witness ==
    /\ pc = "done"
    /\ Len(registered) = 2
    /\ Reg(1).method = "POST" /\ Reg(2).method = "POST"
    /\ Reg(1).path = <<"items">> /\ Reg(2).path = <<"items">>
    /\ Reg(2).middlewares # <<>>
    /\ req.method = "POST" /\ req.path = <<"items">>
    /\ IsSome(matched) /\ MatchedName = Reg(1).handler.name
    /\ res.status = 200

----------------------------------------------------------------------------
(* Helpers for the extension-store properties *)

Store == req.extensions
EntriesOf(map, t) == {e \in map : e.key = t}

(* C16: after any sequence of insert, remove and clear the store holds at   *)
(* most one value per type; insert of v under type T returns the value of   *)
(* type T held just before the call (None when there was none), and get of  *)
(* T afterwards gives v.                                                    *)
C16_OnePerType ==
    /\ \A t \in ExtTypes : Cardinality(EntriesOf(Store, t)) <= 1
    /\ ext_len(Store) <= Cardinality(ExtTypes)
    /\ ext_ret.op = "insert"
       => /\ ext_ret.ret = (IF EntriesOf(ext_ret.before, ext_ret.type) = {} THEN None
                            ELSE Some((CHOOSE e \in EntriesOf(ext_ret.before, ext_ret.type) :
                                          TRUE).boxed.val))
          /\ ext_get(Store, ext_ret.type) = Some(ext_ret.arg)
          /\ \A t \in ExtTypes \ {ext_ret.type} :
                EntriesOf(Store, t) = EntriesOf(ext_ret.before, t)

C16_Witness ==
    /\ ext_ret.op = "insert"
    /\ ext_ret.ret = Some(1) /\ ext_ret.arg = 2
    /\ ext_len(ext_ret.before) = 2
    /\ ext_len(Store) = 2

(* C17: remove of T returns the value of type T stored (None when absent)   *)
(* and afterwards get of T is None and contains of T is false; contains of  *)
(* T is true exactly when get of T is Some; a remove of T directly after an *)
(* insert of v under T returns v and, when T was absent before the insert,  *)
(* leaves the store as it was before the insert.                            *)
C17_RemoveContains ==
    /\ [](/\ ext_ret.op = "remove"
             => /\ ext_ret.ret = ext_get(ext_ret.before, ext_ret.type)
                /\ ext_get(Store, ext_ret.type) = None
                /\ ~ext_contains(Store, ext_ret.type)
                /\ \A t \in ExtTypes \ {ext_ret.type} :
                      EntriesOf(Store, t) = EntriesOf(ext_ret.before, t)
          /\ \A t \in ExtTypes : ext_contains(Store, t) <=> IsSome(ext_get(Store, t)))
    /\ [][(/\ ext_ret.op = "insert"
           /\ ext_ret'.op = "remove"
           /\ ext_ret'.type = ext_ret.type)
          => /\ ext_ret'.ret = Some(ext_ret.arg)
             /\ ~ext_contains(ext_ret.before, ext_ret.type)
                => req'.extensions = ext_ret.before]_vars

C17_Witness ==
    /\ ext_ret.op = "remove"
    /\ ext_ret.ret = Some(2)
    /\ ext_len(ext_ret.before) = 2
    /\ ext_len(Store) = 1

----------------------------------------------------------------------------
(* Helpers for the response properties *)

Returned == Unwrap(returned)
ValidStatus == 100..999

\* the outcome of the request is a framework error
FrameworkError ==
    \/ matched = None
    \/ HasEv("extract_err")
    \/ (IsSome(returned) /\ Returned.value.k = "Err")

\* the response a plain (non-Result) return value stands for
PlainRes(v) ==
    CASE v.k = "str" -> [status |-> 200, text |-> v.s]
      [] v.k = "unit" -> [status |-> 204, text |-> ""]
      [] v.k = "Res" -> [status |-> v.code, text |-> ""]

(* C11: every dispatched request resolves to one well-formed response on    *)
(* every path (no match, extraction failure, middleware short-circuit,      *)
(* handler error, body read failure) when the middleware and user functions *)
(* entered terminate; the response is then returned, once, and the          *)
(* dispatcher takes the next request whatever the outcome was.              *)
C11_Resolves ==
    /\ [](pc = "done" => res.status \in ValidStatus)
    /\ [](pc = "idle" => ENABLED serve_connection)
    /\ [][pc = "done" => pc' = "idle"]_vars
    /\ (pc = "run") ~> (pc = "done")
    /\ (pc = "done") ~> (pc = "idle")

C11_Witness ==
    /\ pc = "done"
    /\ IsSome(matched)
    /\ Len(Unwrap(matched).middlewares) = 1
    /\ req.wire.fails /\ req.reads = 1
    /\ HasEv("extract_err")
    /\ trace[Len(trace)].ev = "after"
    /\ res = Res(500, "extractor")

(* C19: with an error handler configured, the response for a framework      *)
(* error (no route matched, an extraction failed, the user function         *)
(* returned Err) is the one the handler makes of the error.                 *)
C19_ErrorHandlerUsed ==
    (pc = "done" /\ IsSome(error_handler) /\ FrameworkError)
    => res.by = "error_handler"

(* C20 as stated: a string becomes 200 with that text, unit becomes 204     *)
(* with an empty body, Ok(v) becomes the response of v, Err(e) becomes a    *)
(* response whose status is the code of a Status error, 500 for Custom, Io  *)
(* and Hyper, 400 for Json.                                                 *)
C20_Original ==
    IsSome(returned) =>
        LET v == Returned.value
            out == Returned.out
        IN /\ v.k \in {"str", "unit"} => out = PlainRes(v)
           /\ v.k = "Ok" => out = PlainRes(v.v)
           /\ v.k = "Err" =>
                 out.status = (CASE v.e.kind = "Status" -> v.e.code
                                 [] v.e.kind = "Json" -> 400
                                 [] OTHER -> 500)

(* C20 amended: the same, with the status of a Status error being its code  *)
(* when the code is a valid HTTP status (100..999) and 500 otherwise; the   *)
(* response of the request is the normalized value.                         *)
C20_Normalized ==
    IsSome(returned) =>
        LET v == Returned.value
            out == Returned.out
        IN /\ v.k \in {"str", "unit"} => out = PlainRes(v)
           /\ v.k = "Ok" => out = PlainRes(v.v)
           /\ v.k = "Err" =>
                 out.status = (CASE v.e.kind = "Status" ->
                                      IF v.e.code \in ValidStatus THEN v.e.code ELSE 500
                                 [] v.e.kind = "Json" -> 400
                                 [] OTHER -> 500)
           /\ res.status = out.status

C20_Witness ==
    /\ pc = "done"
    /\ IsSome(returned)
    /\ Returned.value = ErrOf(Json)
    /\ Returned.out.status = 400
    /\ res = Res(400, "hs")

----------------------------------------------------------------------------
(* Extraction failures, under SpecEx *)

\* the extractor at position k of the handler is the first to ask for the body
FirstBody(k) == \A j \in 1..(k - 1) : HandlerEx[j] \notin BodyExtractors
\* the extractor of this kind gets as far as calling req.body()
ReadsBody(kind) ==
    \/ kind = "BodyBytes"
    \/ kind = "Json" /\ starts_with(req.content_type, JsonType)
    \/ kind = "Form" /\ starts_with(req.content_type, FormType)
\* the body() call of the extractor at position k hands out the body
BodyFine(k) ==
    \/ ~FirstBody(k)
    \/ ~DeclaredOver /\ ~req.wire.fails /\ ~ActualOver
\* the extraction at position k failed with this status, which is the response
FailedWith(k, code) ==
    /\ Extractions[k].ev = "extract_err"
    /\ Extractions[k].st = code
    /\ pc = "done"
    /\ res = Res(code, "extractor")
\* the segment of the request path the pattern captured under this name
CapturedAs(name) ==
    {req.path[i] : i \in {j \in 1..Len(Reg(1).path) :
                             IsCapture(Reg(1).path[j]) /\ CapName(Reg(1).path[j]) = name}}

C22_PathExtraction ==
    \A k \in 1..Len(Extractions) :
       LET kind == Extractions[k].who
           T == PathTargets[kind]
           value == deserialize_path_params(req.path_params, T)
       IN kind \in PathKinds
          => /\ Extractions[k].ev = "extract_ok"
                => /\ IsSome(value)
                   /\ \A f \in T : f[2] = "String"
                   /\ \A f \in T : \E seg \in CapturedAs(f[1]) :
                         {pr \in Unwrap(value) : pr[1] = f[1]} = {<<f[1], seg>>}
                   /\ \A pr \in Unwrap(value) : \E f \in T : f[1] = pr[1]
             /\ (\E f \in T : f[2] # "String" \/ CapturedAs(f[1]) = {})
                => /\ FailedWith(k, 400)
                   /\ ~HasEv("handler")

C22_Witness ==
    /\ pc = "done"
    /\ HandlerEx # <<>>
    /\ HandlerEx[1] = "Path"
    /\ HasEv("handler")
    /\ req.path = <<"users", "42">>
    /\ deserialize_path_params(req.path_params, PathTargets["Path"]) = Some({<<"id", "42">>})

----------------------------------------------------------------------------
(* Requests in flight at the same time, under SpecConc *)

InFlight == {t \in DOMAIN conns : conns[t].at = "run"}

(* C23: with several requests in flight each has its own extension store,   *)
(* path-parameter map and body cache: a request holds the captures of its   *)
(* own path, the extension values it was given itself and the bytes of its  *)
(* own body, and a step of one request changes nothing of another, under    *)
(* every interleaving.                                                      *)
C23_Isolation ==
    /\ [](\A t \in InFlight :
            LET c == conns[t]
            IN /\ c.req.path_params = {<<"id", c.req.path[2]>>}
               /\ ext_get(c.req.extensions, "u32")
                     = (IF c.put = <<>> THEN None ELSE Some(c.put[Len(c.put)]))
               /\ ext_len(c.req.extensions) = Len(c.put)
               /\ IsSome(c.req.body_cell) => Unwrap(c.req.body_cell) = c.req.wire.bytes
               /\ \A i \in 1..Len(c.got) : c.got[i].ok /\ c.got[i].bytes = c.req.wire.bytes
               /\ c.req.reads <= 1)
    /\ [][\A t \in DOMAIN conns :
            conns'[t] # conns[t] => \A u \in DOMAIN conns \ {t} : conns'[u] = conns[u]]_vars

C23_Witness ==
    /\ Cardinality(InFlight) >= 2
    /\ \E t, u \in InFlight :
          /\ conns[t].req.path # conns[u].req.path
          /\ conns[t].req.wire.bytes # conns[u].req.wire.bytes
          /\ ext_get(conns[t].req.extensions, "u32") = Some(1)
          /\ ext_get(conns[u].req.extensions, "u32") = Some(2)
          /\ IsSome(conns[t].req.body_cell) /\ IsSome(conns[u].req.body_cell)

----------------------------------------------------------------------------
(* The request and the response on their way through the chain, under      *)
(* SpecPipe *)

\* a request that matched on an application with state: its chain is invoked
Invoked == Serving /\ IsSome(matched) /\ IsSome(state)
EvAt(kinds, pos) == {k \in 1..Len(trace) : trace[k].ev \in kinds /\ trace[k].pos = pos}
\* the events at which element i of the chain (the handler is element
\* ChainLen + 1) returns its response
ReturnsOf(i) ==
    IF i <= ChainLen THEN EvAt({"after", "short"}, i)
    ELSE {k \in 1..Len(trace) : trace[k].ev \in {"handler", "extract_err"}}

(* C24: the request that reaches the inner middleware and the handler is    *)
(* the one the middleware before them left: a value a middleware put into   *)
(* the extension store and a header it rewrote before delegating are there  *)
(* for every inner element, together with the path parameters.              *)
C24_RequestPassedOn ==
    Invoked
    => /\ \A k \in 1..Len(trace) :
             trace[k].ev = "insert"
             => ext_get(req.extensions, MwExtType(trace[k].pos)) = Some(trace[k].st)
       /\ HasEv("header") => req.content_type = JsonType
       /\ req.path_params = {<<"id", req.path[2]>>}
       /\ \A k \in 1..Len(trace) :
             (HasEv("header") /\ trace[k].who = "Json") => trace[k].ev = "extract_ok"

C24_Witness ==
    /\ pc = "run"
    /\ ChainLen = 2
    /\ ctl = [k |-> "enter", i |-> 3]
    /\ \E k \in EvAt({"insert"}, 1) : trace[k].st = 2
    /\ \E k \in EvAt({"header"}, 2) : trace[k].st = 1
    /\ ext_get(req.extensions, "u32") = Some(2)
    /\ Len(Extractions) = 2
    /\ Extractions[2].who = "Json" /\ Extractions[2].ev = "extract_ok"

(* C26: the steps of one request follow one another: the path parameters    *)
(* and the configured error handler are in the request before the first     *)
(* middleware starts, a middleware starts only when the one outside it has  *)
(* finished its before-phase by delegating, and the extractors and the user *)
(* function run only after the before-phase of every middleware.            *)
C26_Sequential ==
    /\ (Serving /\ IsSome(matched))
       => /\ req.path_params = {<<"id", req.path[2]>>}
          /\ IsSome(error_handler)
             => ext_get(req.extensions, ErrorHandlerType) = error_handler
    /\ \A k \in 1..Len(trace) :
          LET e == trace[k]
          IN /\ e.ev = "before"
                => /\ e.pos = 1 + Cardinality({j \in 1..(k - 1) : trace[j].ev = "before"})
                   /\ e.pos > 1
                      => \E j \in EvAt({"run"}, e.pos - 1) :
                            /\ j < k
                            /\ \A l \in EvAt({"before", "insert", "header"}, e.pos - 1) : l < j
             /\ e.ev \in {"insert", "header"}
                => /\ \E j \in EvAt({"before"}, e.pos) : j < k
                   /\ \A j \in EvAt({"run"}, e.pos) : k < j
             /\ e.ev \in {"extract_ok", "extract_err", "handler"}
                => \A i \in 1..ChainLen :
                      \E j \in EvAt({"run"}, i) :
                         /\ j < k
                         /\ \A l \in EvAt({"before", "insert", "header"}, i) : l < j

C26_Witness ==
    /\ pc = "done"
    /\ ChainLen = 2
    /\ IsSome(error_handler)
    /\ EvAt({"insert"}, 1) # {} /\ EvAt({"header"}, 2) # {}
    /\ Len(Extractions) = 2
    /\ HasEv("handler")

(* C27: a middleware that delegated gets in its after-phase exactly the     *)
(* response the next inner element returned and may put its own in its      *)
(* place; the response handed to the transport is the one the outermost     *)
(* middleware returned.                                                     *)
C27_ResponsePassedBack ==
    /\ \A k \in 1..Len(trace) :
          LET e == trace[k]
          IN /\ e.ev = "replace"
                => \E j \in ReturnsOf(e.pos + 1) : j < k /\ e.st = trace[j].st
             /\ e.ev = "after"
                => IF \E j \in EvAt({"replace"}, e.pos) : j < k
                   THEN e.st = ReplacedStatus
                   ELSE \E j \in ReturnsOf(e.pos + 1) : j < k /\ e.st = trace[j].st
    /\ (pc = "run" /\ ctl.k = "in" /\ frames[Len(frames)].runs > 0
        /\ EvAt({"replace"}, frames[Len(frames)].idx) = {})
       => \E j \in ReturnsOf(frames[Len(frames)].idx + 1) : res.status = trace[j].st
    /\ (pc = "done" /\ Invoked)
       => /\ Len(trace) \in ReturnsOf(1)
          /\ res.status = trace[Len(trace)].st
          /\ EvAt({"replace"}, 1) # {} => res = Res(ReplacedStatus, middlewares[1])

C27_Witness ==
    /\ pc = "done"
    /\ ChainLen = 2
    /\ \E k \in 1..Len(trace) : trace[k].ev = "handler" /\ trace[k].st = OkStatus
    /\ \E k \in EvAt({"replace"}, 2) : trace[k].st = OkStatus
    /\ \E k \in EvAt({"replace"}, 1) : trace[k].st = ReplacedStatus
    /\ res = Res(ReplacedStatus, "g1")

C29_StateShared ==
    /\ [](\A k \in 1..Len(trace) :
            /\ trace[k].state = Unwrap(state)
            /\ trace[k].who = "State" => trace[k].ev = "extract_ok")
    /\ [][state' = state]_vars

C29_Witness ==
    /\ pc = "done"
    /\ ChainLen = 2
    /\ state = Some("s1")
    /\ EvAt({"before"}, 1) # {} /\ EvAt({"before"}, 2) # {}
    /\ \E k \in 1..Len(trace) : trace[k].who = "State" /\ trace[k].state = "s1"
    /\ \E k \in 1..Len(trace) : trace[k].ev = "handler" /\ trace[k].state = "s1"

----------------------------------------------------------------------------
(* The route table, under Spec *)

(* C25: the route table is built once, when the application starts to       *)
(* listen, and handling requests leaves it and the registrations it was     *)
(* built from unchanged.                                                    *)
C25_TableFixed ==
    /\ [](pc # "build" => IsSome(router))
    /\ [][/\ pc # "build"
             => /\ router' = router
                /\ registered' = registered
                /\ middlewares' = middlewares
                /\ pc' # "build"
          /\ (pc = "build" /\ router' # router)
             => /\ router = None
                /\ IsSome(router')
                /\ pc' = "idle"]_vars

C25_Witness ==
    /\ pc = "done"
    /\ IsSome(matched)
    /\ Len(registered) = 2
    /\ HasEv("handler")
    /\ \E order \in MethodOrders(registered) :
          router = Some(build_router(registered, middlewares, order))

(* C30: building the route table is deterministic: two applications built   *)
(* from the same sequence of registrations dispatch every path to the same  *)
(* handler with the same middleware list, also when one pattern is          *)
(* registered under more than one method.                                   *)
C30_BuildDeterministic ==
    pc # "build"
    => \A order \in MethodOrders(registered) :
          \A path \in ReqPaths :
             at(build_router(registered, middlewares, order), path)
                = at(Unwrap(router), path)

----------------------------------------------------------------------------
(* Scope middleware, under SpecNest *)

RECURSIVE Scopes(_)
\* the routers of a tree of routers: the nesting scopes
Scopes(r) == {r} \cup UNION {Scopes(r.nested[j].router) : j \in 1..Len(r.nested)}
InSeq(x, sq) == \E i \in 1..Len(sq) : sq[i] = x

(* C31: the middleware of a nesting scope is in the chain of exactly the    *)
(* endpoints registered inside that scope, directly or in routers nested   *)
(* in it: it is in the chain of no top-level route, of no route of a       *)
(* sibling router and of no route of an enclosing router, and it runs for  *)
(* no request dispatched to one of those.                                   *)
C31_ScopeMiddleware ==
    \A sc \in Scopes(TreeRouter) :
       \A i \in 1..Len(sc.middlewares) :
          LET mw == sc.middlewares[i]
          IN /\ \A k \in 1..Len(Mounted) :
                   (Len(Mounted) > 1)
                   => (InSeq(mw, Mounted[k].middlewares)
                       <=> Mounted[k].handler.name \in RouterHandlers(sc))
             /\ (Serving /\ IsSome(matched))
                => /\ InSeq(mw, Unwrap(matched).middlewares)
                      <=> MatchedName \in RouterHandlers(sc)
                   /\ (\E k \in 1..Len(trace) : trace[k].who = mw)
                      => MatchedName \in RouterHandlers(sc)
                   /\ (pc = "done" /\ MatchedName \in RouterHandlers(sc)
                       /\ ~HasEv("short"))
                      => \E k \in 1..Len(trace) :
                             trace[k].ev = "before" /\ trace[k].who = mw

C31_Witness ==
    /\ pc = "done"
    /\ IsSome(matched)
    /\ MatchedName = "tb"
    /\ Len(middlewares) = 1
    /\ Unwrap(matched).middlewares = <<"g1", "mt", "mb">>
    /\ Len(trace) = 10
    /\ res = Res(OkStatus, "tb")

(* C32: global middleware applies to every route whatever the order of the  *)
(* calls: a layer() call made after a registration (get, route or nest) is  *)
(* in the chain of that route, and the chain of every route is the global   *)
(* middleware in layer() order followed by the route's own, wherever the    *)
(* registrations come between the layer() calls.                            *)
C32_GlobalEverywhere ==
    /\ [](/\ pc # "build"
             => /\ Len(Unwrap(router)) = Len(registered)
                /\ \A k \in RegIdx :
                      \E j \in 1..Len(Unwrap(router)) :
                         /\ Unwrap(router)[j].handler = Reg(k).handler
                         /\ Unwrap(router)[j].middlewares = middlewares \o Reg(k).middlewares
          /\ (pc = "done" /\ IsSome(matched) /\ ~HasEv("short"))
             => \A i \in 1..Len(middlewares) :
                   \E k \in 1..Len(trace) :
                      /\ trace[k].ev = "before"
                      /\ trace[k].who = middlewares[i]
                      /\ trace[k].pos = i)
    /\ [][pc = "build"
           => /\ middlewares' # middlewares
                 => /\ routes' = routes
                    /\ SubSeq(middlewares', 1, Len(middlewares)) = middlewares
              /\ routes' # routes
                 => /\ middlewares' = middlewares
                    /\ pc' = "build" => SubSeq(routes', 1, Len(routes)) = routes]_vars

C32_Witness ==
    /\ pc = "done"
    /\ IsSome(matched)
    /\ MatchedName = "top"
    /\ Len(registered) = 5
    /\ middlewares = <<"g1", "g2">>
    /\ Unwrap(matched).middlewares = <<"g1", "g2">>
    /\ Len(trace) = 7
    /\ res = Res(OkStatus, "top")

----------------------------------------------------------------------------
(* C33: for a request whose path matches no registered pattern no           *)
(* middleware runs, the global ones included: no chain is built or entered, *)
(* and the 404 response is the dispatcher's own, handed to the transport    *)
(* without a before-phase or an after-phase.                                *)
C33_NoMiddlewareOn404 ==
    (Serving /\ \A k \in RegIdx : ~PatMatch(Reg(k).path, req.path))
    => /\ pc = "done"
       /\ res = NotFoundRes
       /\ trace = <<>>
       /\ frames = <<>>
       /\ ~chain_built
       /\ ctl.k = "out"

C33_Witness ==
    /\ pc = "done"
    /\ Len(middlewares) = 2
    /\ registered # <<>>
    /\ Reg(1).middlewares # <<>>
    /\ \A k \in RegIdx : ~PatMatch(Reg(k).path, req.path)
    /\ req.method = Reg(1).method
    /\ res = NotFoundRes

----------------------------------------------------------------------------
(* The body of a request, under SpecEx *)

(* C34: when the first body() call of a request fails, by the limit or by   *)
(* the transport, the cache stays empty and the transport handle stays      *)
(* taken: every later body() call of the request fails with the internal    *)
(* "already consumed" error (500), not with the first error, and the        *)
(* transport is not read again.                                             *)
C34_FailedBodyStaysFailed ==
    (seen # <<>> /\ ~seen[1].ok)
    => /\ seen[1].e \in {payload_too_large, Custom}
       /\ req.body_cell = None
       /\ req.incoming = None
       /\ req.reads = (IF DeclaredOver THEN 0 ELSE 1)
       /\ \A i \in 2..Len(seen) :
             /\ ~seen[i].ok
             /\ seen[i].e = internal
             /\ into_res(seen[i].e) = 500

C34_Witness ==
    /\ Len(seen) = 2
    /\ seen[1].e = payload_too_large
    /\ ~DeclaredOver
    /\ seen[2].e = internal
    /\ req.reads = 1

(* C35: with a limit set, a Content-Length that parses as a number above    *)
(* the limit makes body() fail with 413 before anything is read from the    *)
(* transport; with the header absent or unparsable the body is read in full *)
(* and only its actual length is compared with the limit.                   *)
C35_DeclaredBeforeActual ==
    (seen # <<>> /\ IsSome(body_limit))
    => /\ (req.content_length >= 0 /\ req.content_length > Unwrap(body_limit))
          => /\ ~seen[1].ok
             /\ into_res(seen[1].e) = 413
             /\ req.reads = 0
       /\ req.content_length \in {ClAbsent, ClBad}
          => /\ req.reads = 1
             /\ req.wire.fails => (~seen[1].ok /\ seen[1].e = Custom)
             /\ ~req.wire.fails
                => /\ seen[1].ok <=> Len(req.wire.bytes) <= Unwrap(body_limit)
                   /\ seen[1].ok => seen[1].bytes = req.wire.bytes
                   /\ ~seen[1].ok => into_res(seen[1].e) = 413

C35_Witness ==
    /\ seen # <<>>
    /\ body_limit = Some(1)
    /\ req.content_length = 2
    /\ Len(req.wire.bytes) = 1
    /\ ~req.wire.fails
    /\ into_res(seen[1].e) = 413
    /\ req.reads = 0

(* C36: a Form or Json extraction that fails on the Content-Type check      *)
(* leaves the body unconsumed: nothing was read from the transport, the     *)
(* cache is empty, and a body() call made on the request afterwards is the  *)
(* first and only read.                                                     *)
C36_TypeCheckBeforeBody ==
    \A k \in 1..Len(Extractions) :
       LET kind == Extractions[k].who
       IN (kind \in {"Form", "Json"} /\ ~ReadsBody(kind) /\ FirstBody(k))
          => /\ FailedWith(k, 400)
             /\ req.reads = 0
             /\ req.body_cell = None
             /\ IsSome(req.incoming)
             /\ seen = <<>>
             /\ LET b == body(req)
                IN /\ b.e # internal
                   /\ ~DeclaredOver
                      => /\ b.req.reads = 1
                         /\ b.ok => b.bytes = req.wire.bytes
                         /\ body(b.req).req.reads = 1

C36_Witness ==
    /\ pc = "done"
    /\ HandlerEx = <<"State", "Query", "Json">>
    /\ Len(Extractions) = 3
    /\ Extractions[3].ev = "extract_err"
    /\ req.content_type = FormType
    /\ Len(req.wire.bytes) = 2
    /\ req.reads = 0
    /\ res = Res(400, "extractor")

----------------------------------------------------------------------------
(* The extension store, under SpecExt *)

(* C37: insert, remove and get_mut of a type leave the value stored under   *)
(* every other type as it was, and len() is the number of types that have a *)
(* value: insert of a new type adds one, insert of a present type adds      *)
(* none, remove of a present type takes one away, clear gives 0.            *)
C37_OtherTypesAndLen ==
    LET before == ext_ret.before
        t0 == ext_ret.type
        had == ext_contains(before, t0)
    IN /\ ext_len(Store) = Cardinality({t \in ExtTypes : IsSome(ext_get(Store, t))})
       /\ ext_ret.op \in {"insert", "remove", "get_mut"}
          => \A t \in ExtTypes \ {t0} :
                /\ ext_get(Store, t) = ext_get(before, t)
                /\ EntriesOf(Store, t) = EntriesOf(before, t)
       /\ ext_ret.op = "insert"
          => ext_len(Store) = ext_len(before) + (IF had THEN 0 ELSE 1)
       /\ ext_ret.op = "remove"
          => ext_len(Store) = ext_len(before) - (IF had THEN 1 ELSE 0)
       /\ ext_ret.op = "get_mut"
          => /\ ext_len(Store) = ext_len(before)
             /\ ext_ret.ret = ext_get(before, t0)
             /\ ext_contains(Store, t0) <=> had
       /\ ext_ret.op = "clear" => ext_len(Store) = 0

C37_Witness ==
    /\ ext_ret.op = "get_mut"
    /\ ext_ret.ret = Some(1)
    /\ ext_ret.arg = 2
    /\ ext_get(Store, ext_ret.type) = Some(2)
    /\ ext_len(ext_ret.before) = 3
    /\ ext_len(Store) = 3

----------------------------------------------------------------------------
(* Status codes, under SpecServe *)

\* the numeric code the user function gave to Res::status, to
\* ResBuilder::status or to Error::Status; -1 when it gave none
GivenCode(v) ==
    CASE v.k \in {"Res", "ResBuilder"} -> v.code
      [] v.k = "Err" /\ v.e.kind = "Status" -> v.e.code
      [] OTHER -> -1

(* C38: a code outside 100..=999 given to Res::status, to                   *)
(* ResBuilder::status or carried by Error::Status gives a response with     *)
(* status 500; every code inside 100..=999 is the status of the response.   *)
C38_InvalidStatusIs500 ==
    (IsSome(returned) /\ GivenCode(Returned.value) >= 0)
    => LET code == GivenCode(Returned.value)
           out == Returned.out
       IN /\ code \notin ValidStatus => out.status = 500
          /\ code \in ValidStatus => out.status = code
          /\ res.status = out.status

C38_Witness ==
    /\ pc = "done"
    /\ IsSome(returned)
    /\ Returned.value = ResBuilt(1000)
    /\ Returned.out.status = 500
    /\ res = Res(500, "hs")

====
